---- MODULE Spec2Model ----
(***************************************************************************)
(* Model of the pi-mono agent runtime.                                     *)
(*                                                                         *)
(*   Spec           the agent loop of packages/agent/src/agent-loop.ts:    *)
(*                  one run of agentLoop / agentLoopContinue, pushing      *)
(*                  AgentEvents into its EventStream, with the model       *)
(*                  provider, the tools, the steering / follow-up sources  *)
(*                  and the cancellation token as its environment.         *)
(*   FairSpec       Spec with weak fairness on the run's steps.            *)
(*   TransformSpec  transformMessages of packages/ai (providers/           *)
(*                  transform-messages), applied to bounded histories.     *)
(***************************************************************************)
EXTENDS Integers, Sequences, FiniteSets, TLC

(***************************************************************************)
(* Bounds of the model.                                                    *)
(***************************************************************************)
\* model calls (turns) of one run; the environment goes quiet on the last
MaxTurns == 2
\* tool calls carried by one assistant message
MaxToolCalls == 2
\* tool_execution_update events one tool execution relays
MaxUpdates == 1
\* delta events of one model response
MaxDeltas == 1
\* messages of a steering / follow-up batch
MaxBatch == 2
\* messages of the history handed to transformMessages
MaxHistory == 3
\* session entries handed to findCutPoint, and the largest keepRecentTokens
MaxEntries == 3
MaxKeep == 3
\* calls of estimateTokens in a row
MaxEstimates == 2
\* content indices of a proxied message, and data lines the proxy server sends
MaxBlocks == 2
MaxLines == 6
\* push calls, end calls and consumers of an EventStream
MaxPushes == 3
MaxEnds == 2
MaxConsumers == 2

VARIABLES
    pc,                 \* position of the run's async task
    config,             \* which optional callbacks AgentLoopConfig carries
    ajv,                \* validation.ts: the AJV singleton exists (FALSE stands for null)
    entry,              \* the entry point that started the run
    initialMessages,    \* context.messages as the caller handed it in
    context,            \* currentContext.messages
    newMessages,        \* newMessages of the run
    pendingMessages,    \* runLoop's pendingMessages
    steeringAfterTools, \* runLoop's steeringAfterTools (<<>> stands for null)
    hasMoreToolCalls,   \* runLoop's hasMoreToolCalls
    firstTurn,          \* runLoop's firstTurn
    message,            \* the assistant message of the current turn
    response,           \* streamAssistantResponse: partialMessage / addedPartial
    toolIndex,          \* executeToolCalls' index (1-based)
    results,            \* executeToolCalls' results
    events,             \* events accepted by the run's EventStream, in push order
    streamDone,         \* EventStream.done of the run's stream
    streamResult,       \* what result() of the run's stream resolved with
    aborted,            \* signal.aborted
    turns,              \* model calls started so far
    executed,           \* ids of the tool calls whose execute was invoked, in order
    polls,              \* the steering / follow-up polls made, in order
    abortInfo,          \* where the cancellation token fired
    tIn,                \* transformMessages: the input history
    tModel,             \* transformMessages: the target model
    tNormalize,         \* transformMessages: the normalizeToolCallId supplied ("none": absent)
    tOut,               \* transformMessages: the returned list
    tOut2,              \* transformMessages applied to the returned list
    tPc,                \* transformMessages: called or not
    stream,             \* an EventStream: queue, waiting, done, the final result
    consumers,          \* its consumers: position of the iterator, events received
    delivered,          \* the events handed to consumers, in order of delivery
    esOp,               \* the last call made on the stream
    esCalls,            \* how many push / end calls were made
    pathEntries,        \* findCutPoint: the session entries
    boundaryStart,      \* findCutPoint: startIndex
    boundaryEnd,        \* findCutPoint: endIndex (exclusive)
    cuts,               \* findCutPoint: the result returned for each keepRecentTokens
    preparation,        \* what prepareCompaction returned
    summaries,          \* compact: the summarization calls and the order they settled in
    compaction,         \* compact: running, returned (with its result) or threw
    proxy,              \* streamProxy: where its async body stands, the abort signal
    proxyPartial,       \* streamProxy: the partial message, rebuilt from the events
    proxyStream,        \* streamProxy: the stream it returned
    sent,               \* what the server sent so far, summed up per content index
    estimates           \* estimateTokens: the messages estimated so far, with the results

loopVars == <<pc, ajv, config, entry, initialMessages, context, newMessages, pendingMessages,
              steeringAfterTools, hasMoreToolCalls, firstTurn, message, response,
              toolIndex, results, events, streamDone, streamResult, aborted,
              turns, executed, polls, abortInfo>>
transformVars == <<tIn, tModel, tNormalize, tOut, tOut2, tPc>>
streamVars == <<stream, consumers, delivered, esOp, esCalls>>
cutVars == <<pathEntries, boundaryStart, boundaryEnd, cuts>>
compactVars == <<preparation, summaries, compaction>>
proxyVars == <<proxy, proxyPartial, proxyStream, sent>>
estimateVars == <<estimates>>
vars == <<loopVars, transformVars, streamVars, cutVars, compactVars, proxyVars, estimateVars>>

Last(s) == s[Len(s)]

SeqsUpTo(S, n) == UNION {[1..k -> S] : k \in 0..n}

(***************************************************************************)
(* Messages of the agent loop.                                             *)
(***************************************************************************)
NoMessage == [role |-> "none"]

UserMessage(origin, k) == [role |-> "user", origin |-> origin, k |-> k]

\* a tool call block of an assistant message
ToolCall(id, name, args) == [id |-> id, name |-> name, args |-> args]

\* the partial assistant message carried by start and by delta events
PartialMessage(turn, deltas) ==
    [role |-> "assistant", turn |-> turn, final |-> FALSE, stopReason |-> "stop",
     toolCalls |-> <<>>, deltas |-> deltas]

\* the finalized assistant message the provider's result() resolves with
FinalMessage(turn, stopReason, toolCalls) ==
    [role |-> "assistant", turn |-> turn, final |-> TRUE, stopReason |-> stopReason,
     toolCalls |-> toolCalls, deltas |-> 0]

SkippedText == "Skipped due to queued user message."

ToolResultMessage(toolCall, text, isError) ==
    [role |-> "toolResult", toolCallId |-> toolCall.id, toolName |-> toolCall.name,
     text |-> text, isError |-> isError]

\* an AgentEvent: its type and what it carries
Event(type, ref) == [type |-> type, ref |-> ref]


(***************************************************************************)
(* The run's EventStream (producer side): push and end.                    *)
(***************************************************************************)
Unresolved == [resolved |-> FALSE, value |-> <<>>]
Resolved(r) == [resolved |-> TRUE, value |-> r]

\* createAgentStream: the terminal event and the result it carries
isComplete(e) == e.type = "agent_end"
extractResult(e) == IF e.type = "agent_end" THEN e.ref ELSE <<>>

\* EventStream.push on the stream state s
Push(s, e) ==
    IF s.done THEN s
    ELSE [events |-> Append(s.events, e),
          done   |-> isComplete(e),
          result |-> IF isComplete(e) /\ ~s.result.resolved
                     THEN Resolved(extractResult(e)) ELSE s.result]

\* EventStream.end(result)
End(s, r) ==
    [s EXCEPT !.done = TRUE,
              !.result = IF s.result.resolved THEN s.result ELSE Resolved(r)]

RECURSIVE PushAll(_, _)
PushAll(s, es) == IF es = <<>> THEN s ELSE PushAll(Push(s, Head(es)), Tail(es))

Stream == [events |-> events, done |-> streamDone, result |-> streamResult]

SetStream(s) ==
    /\ events' = s.events
    /\ streamDone' = s.done
    /\ streamResult' = s.result

Emit(es) == SetStream(PushAll(Stream, es))

MessageEvents(m) == <<Event("message_start", m), Event("message_end", m)>>

RECURSIVE MessagesEvents(_)
MessagesEvents(ms) ==
    IF ms = <<>> THEN <<>> ELSE MessageEvents(Head(ms)) \o MessagesEvents(Tail(ms))

(***************************************************************************)
(* The environment's inputs.                                               *)
(***************************************************************************)
\* context.messages the caller may hand in
CallerContexts ==
    {<<>>,
     <<UserMessage("history", 1)>>,
     <<UserMessage("history", 1), FinalMessage(0, "stop", <<>>)>>}

\* prompts handed to agentLoop
PromptLists == {<<UserMessage("prompt", 1)>>}

\* AgentLoopConfig: getSteeringMessages and getFollowUpMessages are optional
Configs == {[steering |-> TRUE, followUp |-> TRUE],
            [steering |-> FALSE, followUp |-> FALSE]}

\* the validator is there, or could not be created (browser extension, CSP)
Validators(c) == IF c.steering THEN {TRUE} ELSE BOOLEAN

\* the tools registered in context.tools
ToolNames == {"ls"}

\* what a model may put in a tool call: a registered or an unknown tool name,
\* arguments that pass or fail the tool's schema
CallShapes == {<<"ls", "valid">>, <<"ls", "invalid">>, <<"nope", "valid">>}

\* the tool calls of the assistant message of model call t
ToolCallLists(t) ==
    {[i \in 1..Len(shapes) |-> ToolCall(t * 10 + i, shapes[i][1], shapes[i][2])] :
        shapes \in SeqsUpTo(CallShapes, MaxToolCalls)}

\* the run may go on after model call `turns`: the environment goes quiet on
\* the last model call the bound allows
MayContinue == turns < MaxTurns

\* a batch returned by getSteeringMessages / getFollowUpMessages at poll number k
Batches(origin, k) ==
    {<<>>} \cup (IF MayContinue
                 THEN {[i \in 1..MaxBatch |-> UserMessage(origin, k * 10 + i)]}
                 ELSE {})

\* the record of one poll: which source, where in the loop, how many events and
\* model calls came before it, after which tool call, and what it returned
Poll(kind, where, batch, threw) ==
    [kind |-> kind, where |-> where, at |-> Len(events), turn |-> turns,
     index |-> toolIndex, batch |-> batch, threw |-> threw]

NoAbort == [fired |-> FALSE, pc |-> "none", turns |-> 0]

(***************************************************************************)
(* Initial state: nothing started.                                         *)
(***************************************************************************)
LoopInit ==
    /\ pc = "idle"
    /\ config \in Configs
    /\ ajv \in Validators(config)
    /\ entry = "none"
    /\ initialMessages \in CallerContexts
    /\ context = <<>>
    /\ newMessages = <<>>
    /\ pendingMessages = <<>>
    /\ steeringAfterTools = <<>>
    /\ hasMoreToolCalls = TRUE
    /\ firstTurn = TRUE
    /\ message = NoMessage
    /\ response = [partialMessage |-> NoMessage, addedPartial |-> FALSE]
    /\ toolIndex = 0
    /\ results = <<>>
    /\ events = <<>>
    /\ streamDone = FALSE
    /\ streamResult = Unresolved
    /\ aborted = FALSE
    /\ turns = 0
    /\ executed = <<>>
    /\ polls = <<>>
    /\ abortInfo = NoAbort

TransformIdle ==
    /\ tIn = <<>>
    /\ tModel = "none"
    /\ tNormalize = "none"
    /\ tOut = <<>>
    /\ tOut2 = <<>>
    /\ tPc = "unused"

\* end() called without a result, or with one
NoResult == [given |-> FALSE, value |-> <<>>]
GivenResult(r) == [given |-> TRUE, value |-> r]

\* no EventStream of its own is looked at
StreamIdle ==
    /\ stream = [queue |-> <<>>, waiting |-> <<>>, done |-> FALSE, result |-> Unresolved]
    /\ consumers = <<>>
    /\ delivered = <<>>
    /\ esOp = [op |-> "unused", event |-> Event("none", 0), result |-> NoResult, consumer |-> 0]
    /\ esCalls = [push |-> 0, end |-> 0]

\* no session is being compacted
CutIdle ==
    /\ pathEntries = <<>>
    /\ boundaryStart = 0
    /\ boundaryEnd = 0
    /\ cuts = <<>>

\* no compaction is under way
NoCall == [state |-> "unused", text |-> ""]
CompactIdle ==
    /\ preparation = [state |-> "none"]
    /\ summaries = [history |-> NoCall, prefix |-> NoCall, order |-> <<>>, prompt |-> "none"]
    /\ compaction = [state |-> "none"]

\* streamProxy is not in use
ProxyIdle ==
    /\ proxy = [pc |-> "unused"]
    /\ proxyPartial = [role |-> "none"]
    /\ proxyStream = [done |-> FALSE]
    /\ sent = <<>>

EstimateIdle == estimates = <<>>

Init ==
    LoopInit /\ TransformIdle /\ StreamIdle /\ CutIdle /\ CompactIdle /\ ProxyIdle /\ EstimateIdle


(***************************************************************************)
(* agentLoop and agentLoopContinue: the entry points.  Each creates the    *)
(* stream and runs its async body up to runLoop's first await.             *)
(***************************************************************************)
AgentLoop(prompts) ==
    /\ pc = "idle"
    /\ entry' = "agentLoop"
    /\ newMessages' = prompts
    /\ context' = initialMessages \o prompts
    /\ Emit(<<Event("agent_start", 0), Event("turn_start", 0)>> \o MessagesEvents(prompts))
    /\ pc' = "initialPoll"
    /\ UNCHANGED <<ajv, config, initialMessages, pendingMessages, steeringAfterTools,
                   hasMoreToolCalls, firstTurn, message, response, toolIndex, results,
                   aborted, turns, executed, polls, abortInfo>>
    /\ UNCHANGED <<transformVars, streamVars, cutVars, compactVars, proxyVars, estimateVars>>

\* only an empty context is refused
CannotContinueEmptyOnly == initialMessages = <<>>

\* the two throws at the head of agentLoopContinue
CannotContinue ==
    initialMessages = <<>> \/ Last(initialMessages).role = "assistant"

AgentLoopContinue ==
    /\ pc = "idle"
    /\ entry' = "agentLoopContinue"
    /\ IF CannotContinue
       THEN \* throws before a stream exists
            /\ pc' = "rejected"
            /\ UNCHANGED <<newMessages, context, events, streamDone, streamResult>>
       ELSE /\ newMessages' = <<>>
            /\ context' = initialMessages
            /\ Emit(<<Event("agent_start", 0), Event("turn_start", 0)>>)
            /\ pc' = "initialPoll"
    /\ UNCHANGED <<ajv, config, initialMessages, pendingMessages, steeringAfterTools,
                   hasMoreToolCalls, firstTurn, message, response, toolIndex, results,
                   aborted, turns, executed, polls, abortInfo>>
    /\ UNCHANGED <<transformVars, streamVars, cutVars, compactVars, proxyVars, estimateVars>>

\* what the messages array of the caller's context object holds now:
\* agentLoop works on a new array ([...context.messages, ...prompts]),
\* agentLoopContinue on { ...context }, whose messages is the caller's array
CallerMessages ==
    IF entry = "agentLoopContinue" /\ pc # "rejected" THEN context ELSE initialMessages

(***************************************************************************)
(* runLoop.  A callback that throws rejects the run's async body, which    *)
(* nothing catches: the task is over ("crashed") and the stream is left    *)
(* as it is.                                                               *)
(***************************************************************************)
Crash ==
    /\ pc' = "crashed"
    /\ UNCHANGED <<context, newMessages, pendingMessages, steeringAfterTools,
                   hasMoreToolCalls, firstTurn, message, response, toolIndex, results,
                   events, streamDone, streamResult>>

\* line 114: the steering poll at loop entry
RunLoopInitialPoll ==
    /\ pc = "initialPoll"
    /\ IF config.steering
       THEN \/ /\ Crash
               /\ polls' = Append(polls, Poll("steering", "entry", <<>>, TRUE))
            \/ \E batch \in Batches("steer", Len(polls)) :
                 /\ pendingMessages' = batch
                 /\ polls' = Append(polls, Poll("steering", "entry", batch, FALSE))
                 /\ pc' = "turn"
                 /\ UNCHANGED <<context, newMessages, steeringAfterTools,
                                hasMoreToolCalls, firstTurn, message, response,
                                toolIndex, results, events, streamDone, streamResult>>
       ELSE /\ pendingMessages' = <<>>
            /\ pc' = "turn"
            /\ UNCHANGED <<polls, context, newMessages, steeringAfterTools,
                           hasMoreToolCalls, firstTurn, message, response,
                           toolIndex, results, events, streamDone, streamResult>>
    /\ UNCHANGED <<ajv, config, entry, initialMessages, aborted, turns, executed, abortInfo>>
    /\ UNCHANGED <<transformVars, streamVars, cutVars, compactVars, proxyVars, estimateVars>>

\* the callbacks streamAssistantResponse awaits before the stream exists
Callbacks == {"transformContext", "convertToLlm", "getApiKey", "streamFn"}

\* && in place of ||
InnerLoopContinuesBoth == hasMoreToolCalls /\ pendingMessages # <<>>

\* the pending messages are not looked at
InnerLoopContinuesToolCallsOnly == hasMoreToolCalls

\* line 122: the condition of the inner loop
InnerLoopContinues == hasMoreToolCalls \/ pendingMessages # <<>>

\* turn_start pushed on every pass, the first included
TurnStartEventsAlways(first) == <<Event("turn_start", 0)>>

\* lines 123-128: turn_start, which the entry point already emitted for the first turn
TurnStartEvents(first) == IF first THEN <<>> ELSE <<Event("turn_start", 0)>>

\* lines 122-142 and 213-243: one pass of the inner loop up to the model call
\* only the first pending message is pushed
InjectFirstOnly(ms, pending) ==
    IF pending = <<>> THEN ms ELSE Append(ms, pending[1])

\* lines 131-138: every pending message is pushed, in order
Inject(ms, pending) == ms \o pending

RunLoopTurn ==
    /\ pc = "turn"
    /\ InnerLoopContinues
    /\ turns < MaxTurns
    /\ firstTurn' = FALSE
    /\ Emit(TurnStartEvents(firstTurn) \o MessagesEvents(pendingMessages))
    /\ context' = Inject(context, pendingMessages)
    /\ newMessages' = Inject(newMessages, pendingMessages)
    /\ pendingMessages' = <<>>
    /\ \E failing \in Callbacks \cup {"none"} :
         IF failing = "none"
         THEN /\ pc' = "streaming"
              /\ turns' = turns + 1
              /\ response' = [partialMessage |-> NoMessage, addedPartial |-> FALSE]
         ELSE /\ pc' = "crashed"
              /\ UNCHANGED <<turns, response>>
    /\ UNCHANGED <<ajv, config, entry, initialMessages, steeringAfterTools, hasMoreToolCalls,
                   message, toolIndex, results, aborted, executed, polls, abortInfo>>
    /\ UNCHANGED <<transformVars, streamVars, cutVars, compactVars, proxyVars, estimateVars>>

AgentEnd(s, msgs) == End(Push(s, Event("agent_end", msgs)), msgs)

\* lines 185-198: the inner loop is left; follow-up poll, then agent_end
RunLoopFollowUp ==
    /\ pc = "turn"
    /\ ~InnerLoopContinues
    /\ \/ /\ config.followUp
          /\ Crash
          /\ polls' = Append(polls, Poll("followUp", "idle", <<>>, TRUE))
       \/ \E batch \in (IF config.followUp THEN Batches("followUp", Len(polls)) ELSE {<<>>}) :
            /\ polls' = IF config.followUp
                        THEN Append(polls, Poll("followUp", "idle", batch, FALSE)) ELSE polls
            /\ IF batch # <<>>
               THEN /\ pendingMessages' = batch
                    /\ hasMoreToolCalls' = TRUE
                    /\ steeringAfterTools' = <<>>
                    /\ pc' = "turn"
                    /\ UNCHANGED <<events, streamDone, streamResult>>
               ELSE /\ SetStream(AgentEnd(Stream, newMessages))
                    /\ pc' = "done"
                    /\ UNCHANGED <<pendingMessages, hasMoreToolCalls, steeringAfterTools>>
            /\ UNCHANGED <<context, newMessages, firstTurn, message, response,
                           toolIndex, results>>
    /\ UNCHANGED <<ajv, config, entry, initialMessages, aborted, turns, executed, abortInfo>>
    /\ UNCHANGED <<transformVars, streamVars, cutVars, compactVars, proxyVars, estimateVars>>


(***************************************************************************)
(* streamAssistantResponse: the provider's events, one at a time.  A       *)
(* provider answers a fired cancellation token with a terminal error       *)
(* event of reason aborted (as streamProxy does).                          *)
(***************************************************************************)
\* push in place of the assignment to the last slot
ReplaceLastAppends(ms, m) == Append(ms, m)

\* context.messages[context.messages.length - 1] = m
ReplaceLast(ms, m) == [ms EXCEPT ![Len(ms)] = m]

\* case "start"
StreamStart ==
    /\ pc = "streaming"
    /\ ~aborted
    /\ ~response.addedPartial
    /\ LET partial == PartialMessage(turns, 0) IN
         /\ response' = [partialMessage |-> partial, addedPartial |-> TRUE]
         /\ context' = Append(context, partial)
         /\ Emit(<<Event("message_start", partial)>>)
    /\ UNCHANGED <<pc, ajv, config, entry, initialMessages, newMessages, pendingMessages,
                   steeringAfterTools, hasMoreToolCalls, firstTurn, message, toolIndex,
                   results, aborted, turns, executed, polls, abortInfo>>
    /\ UNCHANGED <<transformVars, streamVars, cutVars, compactVars, proxyVars, estimateVars>>

\* case text_* / thinking_* / toolcall_*
StreamDelta ==
    /\ pc = "streaming"
    /\ ~aborted
    /\ response.addedPartial
    /\ response.partialMessage.deltas < MaxDeltas
    /\ IF response.partialMessage # NoMessage
       THEN LET partial == PartialMessage(turns, response.partialMessage.deltas + 1) IN
              /\ response' = [response EXCEPT !.partialMessage = partial]
              /\ context' = ReplaceLast(context, partial)
              /\ Emit(<<Event("message_update", partial)>>)
       ELSE UNCHANGED <<response, context, events, streamDone, streamResult>>
    /\ UNCHANGED <<pc, ajv, config, entry, initialMessages, newMessages, pendingMessages,
                   steeringAfterTools, hasMoreToolCalls, firstTurn, message, toolIndex,
                   results, aborted, turns, executed, polls, abortInfo>>
    /\ UNCHANGED <<transformVars, streamVars, cutVars, compactVars, proxyVars, estimateVars>>

\* the final messages a response may end with
DoneMessages(t) ==
    {FinalMessage(t, IF calls = <<>> THEN "stop" ELSE "toolUse", calls) :
        calls \in (IF MayContinue THEN ToolCallLists(t) ELSE {<<>>})}

ErrorMessages(t, reason) ==
    {FinalMessage(t, reason, calls) : calls \in {<<>>, <<ToolCall(t * 10 + 1, "ls", "valid")>>}}

\* done follows start; an error may come first (streamProxy: the request fails)
TerminalMessages(t) ==
    IF aborted THEN ErrorMessages(t, "aborted")
    ELSE (IF response.addedPartial THEN DoneMessages(t) ELSE {})
         \cup ErrorMessages(t, "error")

\* runLoop line 153
ToolCallsOf(m) == m.toolCalls

\* line 154
HasToolCalls(m) == Len(ToolCallsOf(m)) > 0

\* only error ends the run
IsFailedErrorOnly(m) == m.stopReason = "error"

\* only aborted ends the run
IsFailedAbortedOnly(m) == m.stopReason = "aborted"

\* line 145
IsFailed(m) == m.stopReason = "error" \/ m.stopReason = "aborted"

\* message_start is pushed whether or not a partial was added
TerminalEventsAlwaysStart(addedPartial, finalMessage) ==
    <<Event("message_start", finalMessage), Event("message_end", finalMessage)>>

\* lines 287-292: the events pushed at done / error
TerminalEvents(addedPartial, finalMessage) ==
    (IF ~addedPartial THEN <<Event("message_start", finalMessage)>> ELSE <<>>)
    \o <<Event("message_end", finalMessage)>>

\* case "done" / "error", then runLoop lines 143-174 up to its next await
StreamTerminal ==
    /\ pc = "streaming"
    /\ \E finalMessage \in TerminalMessages(turns) :
         LET ctx == IF response.addedPartial
                    THEN ReplaceLast(context, finalMessage)
                    ELSE Append(context, finalMessage)
             msgEvents == TerminalEvents(response.addedPartial, finalMessage)
             msgs == Append(newMessages, finalMessage)
             turnEnd == Event("turn_end", [message |-> finalMessage, toolResults |-> <<>>])
         IN
         /\ context' = ctx
         /\ newMessages' = msgs
         /\ message' = finalMessage
         /\ IF IsFailed(finalMessage)
            THEN /\ SetStream(AgentEnd(PushAll(Stream, msgEvents \o <<turnEnd>>), msgs))
                 /\ pc' = "done"
                 /\ UNCHANGED <<hasMoreToolCalls, toolIndex, results>>
            ELSE /\ hasMoreToolCalls' = HasToolCalls(finalMessage)
                 /\ IF hasMoreToolCalls'
                    THEN /\ Emit(msgEvents)
                         /\ toolIndex' = 1
                         /\ results' = <<>>
                         /\ pc' = "tool"
                    ELSE /\ Emit(msgEvents \o <<turnEnd>>)
                         /\ pc' = "steerPoll"
                         /\ UNCHANGED <<toolIndex, results>>
    /\ UNCHANGED <<ajv, config, entry, initialMessages, pendingMessages, steeringAfterTools,
                   firstTurn, response, aborted, turns, executed, polls, abortInfo>>
    /\ UNCHANGED <<transformVars, streamVars, cutVars, compactVars, proxyVars, estimateVars>>

\* the provider's stream ends with neither a terminal event nor a result
\* (streamProxy: the body closes without done / error): the for-await loop
\* ends and line 299 awaits response.result() for ever
StreamEndsSilently ==
    /\ pc = "streaming"
    /\ ~aborted
    /\ pc' = "hung"
    /\ UNCHANGED <<ajv, config, entry, initialMessages, context, newMessages, pendingMessages,
                   steeringAfterTools, hasMoreToolCalls, firstTurn, message, response,
                   toolIndex, results, events, streamDone, streamResult, aborted,
                   turns, executed, polls, abortInfo>>
    /\ UNCHANGED <<transformVars, streamVars, cutVars, compactVars, proxyVars, estimateVars>>


(***************************************************************************)
(* executeToolCalls and skipToolCall.                                      *)
(***************************************************************************)
CurrentToolCall == ToolCallsOf(message)[toolIndex]

\* validation never fails
ArgumentsValidAlways(toolCall) == TRUE

\* validateToolArguments: without a validator the arguments are returned as
\* they are; with one, they pass the tool's schema or it throws
ArgumentsValid(toolCall) == ~ajv \/ toolCall.args = "valid"

\* the events of the toolResult message are left for later
ToolCallEndEventsOnly(resultMessage) ==
    <<Event("tool_execution_end", resultMessage.toolCallId)>>

\* lines 352-372: tool_execution_end, the toolResult message and its events
ToolCallEndEvents(resultMessage) ==
    <<Event("tool_execution_end", resultMessage.toolCallId)>> \o MessageEvents(resultMessage)

\* the number of tool_execution_update events at the end of the trace
RECURSIVE TrailingUpdates(_)
TrailingUpdates(es) ==
    IF es = <<>> \/ Last(es).type # "tool_execution_update" THEN 0
    ELSE 1 + TrailingUpdates(SubSeq(es, 1, Len(es) - 1))

\* lines 316-343: tool lookup, tool_execution_start, validation, execute is invoked
ExecuteToolCall ==
    /\ pc = "tool"
    /\ LET toolCall == CurrentToolCall
           start == Event("tool_execution_start", toolCall.id)
           failure == IF toolCall.name \notin ToolNames THEN "Tool not found"
                      ELSE IF ~ArgumentsValid(toolCall) THEN "Validation failed"
                      ELSE "none"
           resultMessage == ToolResultMessage(toolCall, failure, TRUE)
       IN IF failure # "none"
          THEN /\ Emit(<<start>> \o ToolCallEndEvents(resultMessage))
               /\ results' = Append(results, resultMessage)
               /\ pc' = "toolSteer"
               /\ UNCHANGED executed
          ELSE /\ Emit(<<start>>)
               /\ executed' = Append(executed, toolCall.id)
               /\ pc' = "toolExec"
               /\ UNCHANGED results
    /\ UNCHANGED <<ajv, config, entry, initialMessages, context, newMessages, pendingMessages,
                   steeringAfterTools, hasMoreToolCalls, firstTurn, message, response,
                   toolIndex, aborted, turns, polls, abortInfo>>
    /\ UNCHANGED <<transformVars, streamVars, cutVars, compactVars, proxyVars, estimateVars>>

\* the tool calls its onUpdate callback while execute is pending
ToolUpdate ==
    /\ pc = "toolExec"
    /\ TrailingUpdates(events) < MaxUpdates
    /\ Emit(<<Event("tool_execution_update", CurrentToolCall.id)>>)
    /\ UNCHANGED <<pc, ajv, config, entry, initialMessages, context, newMessages, pendingMessages,
                   steeringAfterTools, hasMoreToolCalls, firstTurn, message, response,
                   toolIndex, results, aborted, turns, executed, polls, abortInfo>>
    /\ UNCHANGED <<transformVars, streamVars, cutVars, compactVars, proxyVars, estimateVars>>

\* execute resolves, or rejects and the catch of lines 344-350 takes over
ToolSettles ==
    /\ pc = "toolExec"
    /\ \E threw \in BOOLEAN :
         LET resultMessage ==
                 ToolResultMessage(CurrentToolCall, IF threw THEN "threw" ELSE "output", threw)
         IN /\ Emit(ToolCallEndEvents(resultMessage))
            /\ results' = Append(results, resultMessage)
    /\ pc' = "toolSteer"
    /\ UNCHANGED <<ajv, config, entry, initialMessages, context, newMessages, pendingMessages,
                   steeringAfterTools, hasMoreToolCalls, firstTurn, message, response,
                   toolIndex, aborted, turns, executed, polls, abortInfo>>
    /\ UNCHANGED <<transformVars, streamVars, cutVars, compactVars, proxyVars, estimateVars>>

\* skipToolCall: the result message of a skipped call, and its events
SkipResult(toolCall) == ToolResultMessage(toolCall, SkippedText, TRUE)

skipToolCall(toolCall) ==
    <<Event("tool_execution_start", toolCall.id),
      Event("tool_execution_end", toolCall.id)>> \o MessageEvents(SkipResult(toolCall))

RECURSIVE SkipEvents(_)
SkipEvents(calls) ==
    IF calls = <<>> THEN <<>> ELSE skipToolCall(Head(calls)) \o SkipEvents(Tail(calls))

\* the skipped calls get no result message
SkipResultsNone(calls) == <<>>

SkipResults(calls) == [i \in 1..Len(calls) |-> SkipResult(calls[i])]

\* toolCalls.slice(index + 2): the call after the current one is lost
RemainingCallsOffByOne ==
    SubSeq(ToolCallsOf(message), toolIndex + 2, Len(ToolCallsOf(message)))

\* toolCalls.slice(index + 1), index being 0-based in the source
RemainingCalls == SubSeq(ToolCallsOf(message), toolIndex + 1, Len(ToolCallsOf(message)))

\* executeToolCalls returns: runLoop lines 165-182 up to the next await
FinishTurn(skipped, steering) ==
    LET toolResults == results \o SkipResults(skipped) IN
    /\ results' = toolResults
    /\ context' = context \o toolResults
    /\ newMessages' = newMessages \o toolResults
    /\ Emit(SkipEvents(skipped)
            \o <<Event("turn_end", [message |-> message, toolResults |-> toolResults])>>)
    /\ IF Len(steering) > 0
       THEN /\ pendingMessages' = steering
            /\ pc' = "turn"
       ELSE /\ pc' = "steerPoll"
            /\ UNCHANGED pendingMessages
    /\ UNCHANGED <<steeringAfterTools, toolIndex>>

\* lines 376-388: the steering poll after a tool call
ToolSteeringPoll ==
    /\ pc = "toolSteer"
    /\ \/ /\ config.steering
          /\ Crash
          /\ polls' = Append(polls, Poll("steering", "afterTool", <<>>, TRUE))
       \/ \E steering \in (IF config.steering THEN Batches("steer", Len(polls)) ELSE {<<>>}) :
            /\ polls' = IF config.steering
                        THEN Append(polls, Poll("steering", "afterTool", steering, FALSE))
                        ELSE polls
            /\ IF Len(steering) > 0
               THEN FinishTurn(RemainingCalls, steering)
               ELSE IF toolIndex < Len(ToolCallsOf(message))
                    THEN /\ toolIndex' = toolIndex + 1
                         /\ pc' = "tool"
                         /\ UNCHANGED <<results, context, newMessages, pendingMessages,
                                        steeringAfterTools, events, streamDone,
                                        streamResult>>
                    ELSE FinishTurn(<<>>, <<>>)
            /\ UNCHANGED <<hasMoreToolCalls, firstTurn, message, response>>
    /\ UNCHANGED <<ajv, config, entry, initialMessages, aborted, turns, executed, abortInfo>>
    /\ UNCHANGED <<transformVars, streamVars, cutVars, compactVars, proxyVars, estimateVars>>

\* line 181: the steering poll after a turn
RunLoopSteeringPoll ==
    /\ pc = "steerPoll"
    /\ \/ /\ config.steering
          /\ Crash
          /\ polls' = Append(polls, Poll("steering", "afterTurn", <<>>, TRUE))
       \/ \E batch \in (IF config.steering THEN Batches("steer", Len(polls)) ELSE {<<>>}) :
            /\ polls' = IF config.steering
                        THEN Append(polls, Poll("steering", "afterTurn", batch, FALSE))
                        ELSE polls
            /\ pendingMessages' = batch
            /\ pc' = "turn"
            /\ UNCHANGED <<context, newMessages, steeringAfterTools, hasMoreToolCalls,
                           firstTurn, message, response, toolIndex, results, events,
                           streamDone, streamResult>>
    /\ UNCHANGED <<ajv, config, entry, initialMessages, aborted, turns, executed, abortInfo>>
    /\ UNCHANGED <<transformVars, streamVars, cutVars, compactVars, proxyVars, estimateVars>>

(***************************************************************************)
(* The cancellation token fires while a model stream or a tool execution   *)
(* is in flight.  The loop itself never reads the token: only the provider *)
(* and the tools do.                                                       *)
(***************************************************************************)
Abort ==
    /\ pc \in {"streaming", "toolExec"}
    /\ ~aborted
    /\ aborted' = TRUE
    /\ abortInfo' = [fired |-> TRUE, pc |-> pc, turns |-> turns]
    /\ UNCHANGED <<pc, ajv, config, entry, initialMessages, context, newMessages, pendingMessages,
                   steeringAfterTools, hasMoreToolCalls, firstTurn, message, response,
                   toolIndex, results, events, streamDone, streamResult, turns,
                   executed, polls>>
    /\ UNCHANGED <<transformVars, streamVars, cutVars, compactVars, proxyVars, estimateVars>>

(***************************************************************************)
(* transformMessages (packages/ai): messages, content blocks, and the two  *)
(* passes.                                                                 *)
(***************************************************************************)
TUser == [role |-> "user"]

TToolResult(id, name, text, isError) ==
    [role |-> "toolResult", toolCallId |-> id, toolName |-> name, text |-> text,
     isError |-> isError]

\* model stands for the (provider, api, model id) triple of the source model
TAssistant(model, stopReason, content) ==
    [role |-> "assistant", model |-> model, stopReason |-> stopReason, content |-> content]

\* content blocks; sig is the block's signature ("" when it has none)
ThinkingBlock(thinking, sig) == [type |-> "thinking", text |-> thinking, sig |-> sig]
TextBlock(text, sig) == [type |-> "text", text |-> text, sig |-> sig]
ToolCallBlock(id, name, sig) == [type |-> "toolCall", id |-> id, name |-> name, sig |-> sig]

NoResultText == "No result provided"

\* the synthetic result of lines 208-215 and 252-259
SyntheticResult(toolCall) == TToolResult(toolCall.id, toolCall.name, NoResultText, TRUE)

\* tool-call ids a history may use, and the normalizer handed in by a provider:
\* an id with a character the target rejects is rewritten, any other is kept
RawIds == {"a", "b|"}
NormalizeId(id) == IF id = "b|" THEN "b_" ELSE id

\* another normalizer a provider may hand in: every id is replaced by a digest
\* of it (deterministic, free of collisions, not idempotent)
DigestId(id) ==
    IF id = "a" THEN "ha" ELSE IF id = "b|" THEN "hb"
    ELSE IF id = "ha" THEN "hha" ELSE IF id = "hb" THEN "hhb" ELSE id

\* normalizeToolCallId as handed in: absent, or one of the two
Normalizers == {"none", "sanitize", "digest"}
normalizeToolCallId(normalize, id) ==
    IF normalize = "digest" THEN DigestId(id) ELSE NormalizeId(id)

AllIds == RawIds \cup {"b_", "ha", "hb", "hha", "hhb"}

\* toolCallIdMap: "" stands for no entry
EmptyIdMap == [id \in AllIds |-> ""]
IdMapGet(map, id) == IF id \in DOMAIN map THEN map[id] ELSE ""

\* block.thinking.trim() === ""
IsBlank(text) == text \in {"", " "}

\* the empty-text test made before the signature test
TransformBlockEmptyFirst(block, isSameModel, normalize, map) ==
    IF block.type = "thinking"
    THEN [map |-> map,
          blocks |-> IF IsBlank(block.text) THEN <<>>
                     ELSE IF isSameModel THEN <<block>>
                     ELSE <<TextBlock(block.text, "")>>]
    ELSE IF block.type = "text"
    THEN [map |-> map,
          blocks |-> IF isSameModel THEN <<block>> ELSE <<TextBlock(block.text, "")>>]
    ELSE \* toolCall
         LET stripped == IF ~isSameModel /\ block.sig # ""
                         THEN [block EXCEPT !.sig = ""] ELSE block
             normalizedId == IF ~isSameModel /\ normalize # "none"
                             THEN normalizeToolCallId(normalize, block.id) ELSE block.id
         IN IF normalizedId # block.id
            THEN [map |-> [map EXCEPT ![block.id] = normalizedId],
                  blocks |-> <<[stripped EXCEPT !.id = normalizedId]>>]
            ELSE [map |-> map, blocks |-> <<stripped>>]

\* lines 129-177: one content block; returns the blocks it maps to and the map
TransformBlock(block, isSameModel, normalize, map) ==
    IF block.type = "thinking"
    THEN [map |-> map,
          blocks |-> IF isSameModel /\ block.sig # "" THEN <<block>>
                     ELSE IF IsBlank(block.text) THEN <<>>
                     ELSE IF isSameModel THEN <<block>>
                     ELSE <<TextBlock(block.text, "")>>]
    ELSE IF block.type = "text"
    THEN [map |-> map,
          blocks |-> IF isSameModel THEN <<block>> ELSE <<TextBlock(block.text, "")>>]
    ELSE \* toolCall
         LET stripped == IF ~isSameModel /\ block.sig # ""
                         THEN [block EXCEPT !.sig = ""] ELSE block
             normalizedId == IF ~isSameModel /\ normalize # "none"
                             THEN normalizeToolCallId(normalize, block.id) ELSE block.id
         IN IF normalizedId # block.id
            THEN [map |-> [map EXCEPT ![block.id] = normalizedId],
                  blocks |-> <<[stripped EXCEPT !.id = normalizedId]>>]
            ELSE [map |-> map, blocks |-> <<stripped>>]

\* content.flatMap of line 129, left to right
RECURSIVE TransformContent(_, _, _, _)
TransformContent(content, isSameModel, normalize, map) ==
    IF content = <<>> THEN [map |-> map, blocks |-> <<>>]
    ELSE LET first == TransformBlock(Head(content), isSameModel, normalize, map)
             rest == TransformContent(Tail(content), isSameModel, normalize, first.map)
         IN [map |-> rest.map, blocks |-> first.blocks \o rest.blocks]

\* lines 101-185: messages.map, left to right, with the id map built on the way
RECURSIVE FirstPass(_, _, _, _)
FirstPass(messages, model, normalize, map) ==
    IF messages = <<>> THEN <<>>
    ELSE LET msg == Head(messages) IN
         IF msg.role = "user"
         THEN <<msg>> \o FirstPass(Tail(messages), model, normalize, map)
         ELSE IF msg.role = "toolResult"
         THEN LET normalizedId == IdMapGet(map, msg.toolCallId)
                  out == IF normalizedId # "" /\ normalizedId # msg.toolCallId
                         THEN [msg EXCEPT !.toolCallId = normalizedId] ELSE msg
              IN <<out>> \o FirstPass(Tail(messages), model, normalize, map)
         ELSE LET t == TransformContent(msg.content, msg.model = model, normalize, map)
              IN <<[msg EXCEPT !.content = t.blocks]>>
                 \o FirstPass(Tail(messages), model, normalize, t.map)

\* only an errored message is skipped
IsErroredErrorOnly(msg) == msg.stopReason = "error"

\* line 229: an incomplete turn, not to be replayed
IsErrored(msg) == msg.stopReason = "error" \/ msg.stopReason = "aborted"

\* assistantMsg.content.filter((b) => b.type === "toolCall")
TToolCalls(msg) == SelectSeq(msg.content, LAMBDA b : b.type = "toolCall")

\* a variant that synthesizes a result for every pending call, answered or not
SynthesizedForAll(pendingToolCalls, existingToolResultIds) ==
    [k \in 1..Len(pendingToolCalls) |-> SyntheticResult(pendingToolCalls[k])]

\* lines 206-217 and 250-261: synthetic results for the calls without a result
RECURSIVE Synthesized(_, _)
Synthesized(pendingToolCalls, existingToolResultIds) ==
    IF pendingToolCalls = <<>> THEN <<>>
    ELSE (IF Head(pendingToolCalls).id \notin existingToolResultIds
          THEN <<SyntheticResult(Head(pendingToolCalls))>> ELSE <<>>)
         \o Synthesized(Tail(pendingToolCalls), existingToolResultIds)

\* lines 194-271: the orphan-repair scan
RECURSIVE SecondPass(_, _, _)
SecondPass(transformed, pendingToolCalls, existingToolResultIds) ==
    IF transformed = <<>> THEN <<>>
    ELSE LET msg == Head(transformed)
             flush == Synthesized(pendingToolCalls, existingToolResultIds)
         IN
         IF msg.role = "assistant"
         THEN LET pending1 == <<>>
                  existing1 == IF Len(pendingToolCalls) > 0 THEN {} ELSE existingToolResultIds
              IN IF IsErrored(msg)
                 THEN flush \o SecondPass(Tail(transformed), pending1, existing1)
                 ELSE IF Len(TToolCalls(msg)) > 0
                 THEN flush \o <<msg>> \o SecondPass(Tail(transformed), TToolCalls(msg), {})
                 ELSE flush \o <<msg>> \o SecondPass(Tail(transformed), pending1, existing1)
         ELSE IF msg.role = "toolResult"
         THEN <<msg>> \o SecondPass(Tail(transformed), pendingToolCalls,
                                    existingToolResultIds \cup {msg.toolCallId})
         ELSE \* user
              IF Len(pendingToolCalls) > 0
              THEN flush \o <<msg>> \o SecondPass(Tail(transformed), <<>>, {})
              ELSE <<msg>> \o SecondPass(Tail(transformed), pendingToolCalls,
                                         existingToolResultIds)

transformMessages(messages, model, normalize) ==
    SecondPass(FirstPass(messages, model, normalize, EmptyIdMap), <<>>, {})

Next ==
    \/ \E prompts \in PromptLists : AgentLoop(prompts)
    \/ AgentLoopContinue
    \/ RunLoopInitialPoll
    \/ RunLoopTurn
    \/ RunLoopFollowUp
    \/ StreamStart
    \/ StreamDelta
    \/ StreamTerminal
    \/ StreamEndsSilently
    \/ ExecuteToolCall
    \/ ToolUpdate
    \/ ToolSettles
    \/ ToolSteeringPoll
    \/ RunLoopSteeringPoll
    \/ Abort

Spec == Init /\ [][Next]_vars

\* the run's task, the provider and the tools keep being scheduled; the
\* cancellation token need never fire
Progress == Next /\ aborted' = aborted

FairSpec == Spec /\ WF_vars(Progress)



(***************************************************************************)
(* TransformSpec: transformMessages applied to every bounded history.      *)
(***************************************************************************)
LoopUnused ==
    /\ pc = "unused"
    /\ config = [steering |-> FALSE, followUp |-> FALSE]
    /\ ajv = TRUE
    /\ entry = "none"
    /\ initialMessages = <<>>
    /\ context = <<>>
    /\ newMessages = <<>>
    /\ pendingMessages = <<>>
    /\ steeringAfterTools = <<>>
    /\ hasMoreToolCalls = TRUE
    /\ firstTurn = TRUE
    /\ message = NoMessage
    /\ response = [partialMessage |-> NoMessage, addedPartial |-> FALSE]
    /\ toolIndex = 0
    /\ results = <<>>
    /\ events = <<>>
    /\ streamDone = FALSE
    /\ streamResult = Unresolved
    /\ aborted = FALSE
    /\ turns = 0
    /\ executed = <<>>
    /\ polls = <<>>
    /\ abortInfo = NoAbort

\* the target model, and another model whose messages the history may hold
TargetModel == "M"
SourceModels == {"M", "X"}

\* the contents an assistant message of the history may carry
TContents ==
    {<<ToolCallBlock("a", "ls", "")>>,
     <<ToolCallBlock("a", "ls", ""), ToolCallBlock("b|", "ls", "sig")>>,
     <<TextBlock("hi", "tsig")>>,
     <<ThinkingBlock("hm", "sig"), TextBlock("hi", "")>>,
     <<ThinkingBlock("", "sig"), TextBlock("", "")>>,
     <<ThinkingBlock(" ", ""), ThinkingBlock("hm", ""), ToolCallBlock("b|", "ls", "")>>}

StopReasonFor(content, failed) ==
    IF failed THEN "error"
    ELSE IF \E i \in 1..Len(content) : content[i].type = "toolCall" THEN "toolUse"
    ELSE "stop"

TMessages ==
    {TUser}
    \cup {TToolResult(id, "ls", "out", FALSE) : id \in RawIds}
    \cup {TAssistant(m, StopReasonFor(c, failed), c) :
            m \in SourceModels, c \in TContents, failed \in BOOLEAN}
    \cup {TAssistant(TargetModel, "aborted", <<ToolCallBlock("a", "ls", "")>>)}

Histories == SeqsUpTo(TMessages, MaxHistory)

TransformInit ==
    /\ LoopUnused
    /\ StreamIdle
    /\ CutIdle
    /\ CompactIdle
    /\ ProxyIdle
    /\ EstimateIdle
    /\ tIn \in Histories
    /\ tModel = TargetModel
    /\ tNormalize \in Normalizers
    /\ tOut = <<>>
    /\ tOut2 = <<>>
    /\ tPc = "ready"

TransformMessages ==
    /\ tPc = "ready"
    /\ tOut' = transformMessages(tIn, tModel, tNormalize)
    /\ tPc' = "done"
    /\ UNCHANGED <<tIn, tModel, tNormalize, tOut2>>
    /\ UNCHANGED <<loopVars, streamVars, cutVars, compactVars, proxyVars, estimateVars>>

\* the returned list is handed to transformMessages again, for the same model
TransformAgain ==
    /\ tPc = "done"
    /\ tOut2' = transformMessages(tOut, tModel, tNormalize)
    /\ tPc' = "twice"
    /\ UNCHANGED <<tIn, tModel, tNormalize, tOut>>
    /\ UNCHANGED <<loopVars, streamVars, cutVars, compactVars, proxyVars, estimateVars>>

TransformNext == TransformMessages \/ TransformAgain

TransformSpec == TransformInit /\ [][TransformNext]_vars

(***************************************************************************)
(* StreamSpec: one EventStream (created as createAgentStream does), its    *)
(* producer calling push and end, its consumers iterating.                 *)
(***************************************************************************)
Consumers == 1..MaxConsumers

\* the events a producer may push, two of them terminal
StreamEvents ==
    {Event("message_update", 1), Event("message_update", 2),
     Event("agent_end", <<1>>), Event("agent_end", <<2>>)}

\* what end may be called with
EndResults == {NoResult, GivenResult(<<1>>), GivenResult(<<3>>)}

\* resolveFinalResult: a promise settles once
Resolve(result, v) == IF result.resolved THEN result ELSE Resolved(v)

\* the stream, its consumers and the deliveries, taken together
World == [stream |-> stream, consumers |-> consumers, delivered |-> delivered]

\* the consumer c is handed the event e
Deliver(w, c, e) ==
    [w EXCEPT !.consumers[c] = [pc |-> "ready", got |-> Append(@.got, e)],
              !.delivered = Append(@, [to |-> c, event |-> e])]

\* a terminal event ends the stream and is not handed on
pushDropsTerminal(w, e) ==
    IF w.stream.done THEN w
    ELSE IF isComplete(e)
    THEN [w EXCEPT !.stream.done = TRUE,
                   !.stream.result = Resolve(@, extractResult(e))]
    ELSE IF w.stream.waiting # <<>>
    THEN Deliver([w EXCEPT !.stream.waiting = Tail(@)], Head(w.stream.waiting), e)
    ELSE [w EXCEPT !.stream.queue = Append(@, e)]

\* done is not looked at
pushIgnoresDone(w, e) ==
    LET w1 == IF isComplete(e)
              THEN [w EXCEPT !.stream.done = TRUE,
                             !.stream.result = Resolve(@, extractResult(e))]
              ELSE w
    IN IF w1.stream.waiting # <<>>
       THEN Deliver([w1 EXCEPT !.stream.waiting = Tail(@)], Head(w1.stream.waiting), e)
       ELSE [w1 EXCEPT !.stream.queue = Append(@, e)]

\* EventStream.push
push(w, e) ==
    IF w.stream.done THEN w
    ELSE LET w1 == IF isComplete(e)
                   THEN [w EXCEPT !.stream.done = TRUE,
                                  !.stream.result = Resolve(@, extractResult(e))]
                   ELSE w
         IN IF w1.stream.waiting # <<>>
            THEN Deliver([w1 EXCEPT !.stream.waiting = Tail(@)], Head(w1.stream.waiting), e)
            ELSE [w1 EXCEPT !.stream.queue = Append(@, e)]

\* the waiting consumers are not told
endLeavesWaiters(w, r) ==
    [w EXCEPT !.stream.done = TRUE,
              !.stream.result = IF r.given THEN Resolve(@, r.value) ELSE @]

\* EventStream.end
end(w, r) ==
    LET released == {w.stream.waiting[i] : i \in 1..Len(w.stream.waiting)} IN
    [w EXCEPT !.stream.done = TRUE,
              !.stream.result = IF r.given THEN Resolve(@, r.value) ELSE @,
              !.stream.waiting = <<>>,
              !.consumers = [c \in DOMAIN @ |->
                                IF c \in released THEN [@[c] EXCEPT !.pc = "finished"]
                                ELSE @[c]]]

\* the newest buffered event is handed out first
nextTakesNewest(w, c) ==
    IF Len(w.stream.queue) > 0
    THEN Deliver([w EXCEPT !.stream.queue = SubSeq(@, 1, Len(@) - 1)], c,
                 w.stream.queue[Len(w.stream.queue)])
    ELSE IF w.stream.done
    THEN [w EXCEPT !.consumers[c].pc = "finished"]
    ELSE [w EXCEPT !.stream.waiting = Append(@, c), !.consumers[c].pc = "blocked"]

\* one pass of the iterator's loop for the consumer c
next(w, c) ==
    IF Len(w.stream.queue) > 0
    THEN Deliver([w EXCEPT !.stream.queue = Tail(@)], c, Head(w.stream.queue))
    ELSE IF w.stream.done
    THEN [w EXCEPT !.consumers[c].pc = "finished"]
    ELSE [w EXCEPT !.stream.waiting = Append(@, c), !.consumers[c].pc = "blocked"]

SetWorld(w) ==
    /\ stream' = w.stream
    /\ consumers' = w.consumers
    /\ delivered' = w.delivered

StreamInit ==
    /\ LoopUnused
    /\ TransformIdle
    /\ CutIdle
    /\ CompactIdle
    /\ ProxyIdle
    /\ EstimateIdle
    /\ stream = [queue |-> <<>>, waiting |-> <<>>, done |-> FALSE, result |-> Unresolved]
    /\ consumers \in {[c \in 1..n |-> [pc |-> "ready", got |-> <<>>]] : n \in 1..MaxConsumers}
    /\ delivered = <<>>
    /\ esOp = [op |-> "new", event |-> Event("none", 0), result |-> NoResult, consumer |-> 0]
    /\ esCalls = [push |-> 0, end |-> 0]

StreamLive == esOp.op \notin {"unused"}

PushCall(e) ==
    /\ StreamLive
    /\ esCalls.push < MaxPushes
    /\ SetWorld(push(World, e))
    /\ esOp' = [op |-> "push", event |-> e, result |-> NoResult, consumer |-> 0]
    /\ esCalls' = [esCalls EXCEPT !.push = @ + 1]
    /\ UNCHANGED <<loopVars, transformVars, cutVars, compactVars, proxyVars, estimateVars>>

EndCall(r) ==
    /\ StreamLive
    /\ esCalls.end < MaxEnds
    /\ SetWorld(end(World, r))
    /\ esOp' = [op |-> "end", event |-> Event("none", 0), result |-> r, consumer |-> 0]
    /\ esCalls' = [esCalls EXCEPT !.end = @ + 1]
    /\ UNCHANGED <<loopVars, transformVars, cutVars, compactVars, proxyVars, estimateVars>>

NextCall(c) ==
    /\ StreamLive
    /\ c \in DOMAIN consumers
    /\ consumers[c].pc = "ready"
    /\ SetWorld(next(World, c))
    /\ esOp' = [op |-> "next", event |-> Event("none", 0), result |-> NoResult, consumer |-> c]
    /\ UNCHANGED esCalls
    /\ UNCHANGED <<loopVars, transformVars, cutVars, compactVars, proxyVars, estimateVars>>

StreamNext ==
    \/ \E e \in StreamEvents : PushCall(e)
    \/ \E r \in EndResults : EndCall(r)
    \/ \E c \in Consumers : NextCall(c)

StreamSpec == StreamInit /\ [][StreamNext]_vars

(***************************************************************************)
(* The cut-point finder of the compaction engine.                          *)
(***************************************************************************)
\* a session entry: a message entry carries its role and what estimateTokens
\* gives for its message, any other entry only its type
MessageEntry(role, tokens) == [type |-> "message", role |-> role, tokens |-> tokens]
OtherEntry(type) == [type |-> type, role |-> "", tokens |-> 0]

\* model_change stands for thinking_level_change and custom as well: the code
\* treats the three alike
SessionEntries ==
    {MessageEntry("user", 1), MessageEntry("assistant", 1), MessageEntry("assistant", 2),
     MessageEntry("toolResult", 1), MessageEntry("toolResult", 2),
     MessageEntry("compactionSummary", 1), MessageEntry("bashExecution", 1),
     OtherEntry("model_change"), OtherEntry("label"), OtherEntry("compaction"),
     OtherEntry("custom_message")}

\* entries[i], indices counted from 0 as in the code
EntryAt(sessionEntries, i) == sessionEntries[i + 1]

\* lines 261-328: chars / 4 rounded up, a number fixed by the message
estimateTokens(sessionEntry) == sessionEntry.tokens

\* tool results taken for cut points too
IsValidCutPointAnyMessage(sessionEntry) ==
    \/ sessionEntry.type = "message"
    \/ sessionEntry.type = "branch_summary" \/ sessionEntry.type = "custom_message"

\* lines 353-381: the entries findValidCutPoints collects
IsValidCutPoint(sessionEntry) ==
    \/ /\ sessionEntry.type = "message"
       /\ sessionEntry.role \in {"bashExecution", "custom", "branchSummary",
                                 "compactionSummary", "user", "assistant"}
    \/ sessionEntry.type = "branch_summary" \/ sessionEntry.type = "custom_message"

\* lines 337-384: the indices of the cut points in [startIndex, endIndex), ascending
RECURSIVE findValidCutPoints(_, _, _)
findValidCutPoints(sessionEntries, startIndex, endIndex) ==
    IF startIndex >= endIndex THEN <<>>
    ELSE (IF IsValidCutPoint(EntryAt(sessionEntries, startIndex))
          THEN <<startIndex>> ELSE <<>>)
         \o findValidCutPoints(sessionEntries, startIndex + 1, endIndex)

\* lines 466-471: the closest cut point at or after i; cutIndex keeps its
\* value when there is none
RECURSIVE ClosestCutPoint(_, _, _, _)
ClosestCutPoint(cutPoints, c, i, cutIndex) ==
    IF c > Len(cutPoints) THEN cutIndex
    ELSE IF cutPoints[c] >= i THEN cutPoints[c]
    ELSE ClosestCutPoint(cutPoints, c + 1, i, cutIndex)

\* lines 453-474: the walk back from the newest entry
RECURSIVE WalkBack(_, _, _, _, _, _, _)
WalkBack(sessionEntries, startIndex, i, accumulatedTokens, keepRecentTokens, cutPoints, cutIndex) ==
    IF i < startIndex THEN cutIndex
    ELSE IF EntryAt(sessionEntries, i).type # "message"
    THEN WalkBack(sessionEntries, startIndex, i - 1, accumulatedTokens,
                  keepRecentTokens, cutPoints, cutIndex)
    ELSE LET accumulated == accumulatedTokens + estimateTokens(EntryAt(sessionEntries, i))
         IN IF accumulated >= keepRecentTokens
            THEN ClosestCutPoint(cutPoints, 1, i, cutIndex)
            ELSE WalkBack(sessionEntries, startIndex, i - 1, accumulated,
                          keepRecentTokens, cutPoints, cutIndex)

\* lines 485-497: the entries before the cut that are neither messages nor
\* compaction entries go with the kept tail
RECURSIVE ScanBack(_, _, _)
ScanBack(sessionEntries, startIndex, cutIndex) ==
    IF cutIndex <= startIndex THEN cutIndex
    ELSE IF EntryAt(sessionEntries, cutIndex - 1).type \in {"compaction", "message"}
    THEN cutIndex
    ELSE ScanBack(sessionEntries, startIndex, cutIndex - 1)

\* lines 391-406
RECURSIVE findTurnStartIndex(_, _, _)
findTurnStartIndex(sessionEntries, entryIndex, startIndex) ==
    IF entryIndex < startIndex THEN -1
    ELSE LET sessionEntry == EntryAt(sessionEntries, entryIndex) IN
         IF sessionEntry.type = "branch_summary" \/ sessionEntry.type = "custom_message"
         THEN entryIndex
         ELSE IF sessionEntry.type = "message"
                 /\ (sessionEntry.role = "user" \/ sessionEntry.role = "bashExecution")
         THEN entryIndex
         ELSE findTurnStartIndex(sessionEntries, entryIndex - 1, startIndex)

CutPointResult(firstKeptEntryIndex, turnStartIndex, isSplitTurn) ==
    [firstKeptEntryIndex |-> firstKeptEntryIndex, turnStartIndex |-> turnStartIndex,
     isSplitTurn |-> isSplitTurn]

\* lines 437-514
findCutPoint(sessionEntries, startIndex, endIndex, keepRecentTokens) ==
    LET cutPoints == findValidCutPoints(sessionEntries, startIndex, endIndex) IN
    IF Len(cutPoints) = 0 THEN CutPointResult(startIndex, -1, FALSE)
    ELSE LET cutIndex == ScanBack(sessionEntries, startIndex,
                                  WalkBack(sessionEntries, startIndex, endIndex - 1, 0,
                                           keepRecentTokens, cutPoints, cutPoints[1]))
             cutEntry == EntryAt(sessionEntries, cutIndex)
             isUserMessage == cutEntry.type = "message" /\ cutEntry.role = "user"
             turnStartIndex == IF isUserMessage THEN -1
                               ELSE findTurnStartIndex(sessionEntries, cutIndex, startIndex)
         IN CutPointResult(cutIndex, turnStartIndex,
                           ~isUserMessage /\ turnStartIndex # -1)

\* findCutPoint was not called yet
NoCut == CutPointResult(-1, -1, FALSE)

\* any entries, any range inside them
CutInit ==
    /\ LoopUnused
    /\ TransformIdle
    /\ StreamIdle
    /\ CompactIdle
    /\ ProxyIdle
    /\ EstimateIdle
    /\ pathEntries \in SeqsUpTo(SessionEntries, MaxEntries)
    /\ boundaryStart \in 0..Len(pathEntries)
    /\ boundaryEnd \in boundaryStart..Len(pathEntries)
    /\ cuts = [k \in 1..MaxKeep |-> NoCut]

\* one call of findCutPoint on the entries
FindCutPoint(keepRecentTokens) ==
    /\ cuts[keepRecentTokens] = NoCut
    /\ cuts' = [cuts EXCEPT ![keepRecentTokens] =
                    findCutPoint(pathEntries, boundaryStart, boundaryEnd, keepRecentTokens)]
    /\ UNCHANGED <<pathEntries, boundaryStart, boundaryEnd>>
    /\ UNCHANGED <<loopVars, transformVars, streamVars, compactVars, proxyVars, estimateVars>>

CutNext == \E keepRecentTokens \in 1..MaxKeep : FindCutPoint(keepRecentTokens)

CutSpec == CutInit /\ [][CutNext]_vars

(***************************************************************************)
(* prepareCompaction and compact.                                          *)
(***************************************************************************)
\* lines 92-106: the entries that give a message
getMessageFromEntry(sessionEntry) ==
    sessionEntry.type \in {"message", "custom_message", "branch_summary", "compaction"}

\* the messages of the entries in [from, to), each named by its entry index
RECURSIVE MessagesIn(_, _, _)
MessagesIn(sessionEntries, from, to) ==
    IF from >= to THEN <<>>
    ELSE (IF getMessageFromEntry(EntryAt(sessionEntries, from)) THEN <<from>> ELSE <<>>)
         \o MessagesIn(sessionEntries, from + 1, to)

\* lines 693-699; -1 when there is none
RECURSIVE PrevCompactionIndex(_, _)
PrevCompactionIndex(sessionEntries, i) ==
    IF i < 0 THEN -1
    ELSE IF EntryAt(sessionEntries, i).type = "compaction" THEN i
    ELSE PrevCompactionIndex(sessionEntries, i - 1)

\* lines 215-229, for messages that carry no usage
RECURSIVE EstimatedTokens(_, _)
EstimatedTokens(sessionEntries, messages) ==
    IF messages = <<>> THEN 0
    ELSE estimateTokens(EntryAt(sessionEntries, Head(messages)))
         + EstimatedTokens(sessionEntries, Tail(messages))

\* lines 688-690: nothing was added since the last compaction
EndsInCompaction(sessionEntries) ==
    Len(sessionEntries) > 0 /\ Last(sessionEntries).type = "compaction"

\* a variant that prepares a compaction whatever the path ends in
prepareCompactionUnguarded(sessionEntries, keepRecentTokens, fileOps) ==
    LET prevCompactionIndex == PrevCompactionIndex(sessionEntries, Len(sessionEntries) - 1)
        rangeStart == prevCompactionIndex + 1
        rangeEnd == Len(sessionEntries)
        usageStart == IF prevCompactionIndex >= 0 THEN prevCompactionIndex ELSE 0
        cutPoint == findCutPoint(sessionEntries, rangeStart, rangeEnd, keepRecentTokens)
        historyEnd == IF cutPoint.isSplitTurn THEN cutPoint.turnStartIndex
                      ELSE cutPoint.firstKeptEntryIndex
    IN [state |-> "prepared",
        boundaryStart |-> rangeStart,
        boundaryEnd |-> rangeEnd,
        cutPoint |-> cutPoint,
        firstKeptEntryId |-> cutPoint.firstKeptEntryIndex,
        historyEnd |-> historyEnd,
        messagesToSummarize |-> MessagesIn(sessionEntries, rangeStart, historyEnd),
        turnPrefixMessages |->
            IF cutPoint.isSplitTurn
            THEN MessagesIn(sessionEntries, cutPoint.turnStartIndex,
                            cutPoint.firstKeptEntryIndex)
            ELSE <<>>,
        isSplitTurn |-> cutPoint.isSplitTurn,
        tokensBefore |-> EstimatedTokens(sessionEntries,
                             MessagesIn(sessionEntries, usageStart, rangeEnd)),
        previousSummary |-> prevCompactionIndex >= 0,
        fileOps |-> fileOps]

\* the turn prefix is taken up to the entry after the cut
prepareCompactionPrefixOffByOne(sessionEntries, keepRecentTokens, fileOps) ==
    IF EndsInCompaction(sessionEntries)
    THEN [state |-> "undefined"]
    ELSE LET prevCompactionIndex == PrevCompactionIndex(sessionEntries, Len(sessionEntries) - 1)
             rangeStart == prevCompactionIndex + 1
             rangeEnd == Len(sessionEntries)
             usageStart == IF prevCompactionIndex >= 0 THEN prevCompactionIndex ELSE 0
             cutPoint == findCutPoint(sessionEntries, rangeStart, rangeEnd, keepRecentTokens)
             historyEnd == IF cutPoint.isSplitTurn THEN cutPoint.turnStartIndex
                           ELSE cutPoint.firstKeptEntryIndex
         IN IF cutPoint.firstKeptEntryIndex >= Len(sessionEntries)
            THEN [state |-> "undefined"]
            ELSE [state |-> "prepared",
                  boundaryStart |-> rangeStart,
                  boundaryEnd |-> rangeEnd,
                  cutPoint |-> cutPoint,
                  firstKeptEntryId |-> cutPoint.firstKeptEntryIndex,
                  historyEnd |-> historyEnd,
                  messagesToSummarize |-> MessagesIn(sessionEntries, rangeStart, historyEnd),
                  turnPrefixMessages |->
                      IF cutPoint.isSplitTurn
                      THEN MessagesIn(sessionEntries, cutPoint.turnStartIndex,
                                      cutPoint.firstKeptEntryIndex + 1)
                      ELSE <<>>,
                  isSplitTurn |-> cutPoint.isSplitTurn,
                  tokensBefore |-> EstimatedTokens(sessionEntries,
                                       MessagesIn(sessionEntries, usageStart, rangeEnd)),
                  previousSummary |-> prevCompactionIndex >= 0,
                  fileOps |-> fileOps]

\* lines 682-775; an entry's id is its index, fileOps the formatted file lists
prepareCompaction(sessionEntries, keepRecentTokens, fileOps) ==
    IF EndsInCompaction(sessionEntries)
    THEN [state |-> "undefined"]
    ELSE LET prevCompactionIndex == PrevCompactionIndex(sessionEntries, Len(sessionEntries) - 1)
             rangeStart == prevCompactionIndex + 1
             rangeEnd == Len(sessionEntries)
             usageStart == IF prevCompactionIndex >= 0 THEN prevCompactionIndex ELSE 0
             cutPoint == findCutPoint(sessionEntries, rangeStart, rangeEnd, keepRecentTokens)
             historyEnd == IF cutPoint.isSplitTurn THEN cutPoint.turnStartIndex
                           ELSE cutPoint.firstKeptEntryIndex
         IN IF cutPoint.firstKeptEntryIndex >= Len(sessionEntries)
            THEN [state |-> "undefined"]
            ELSE [state |-> "prepared",
                  boundaryStart |-> rangeStart,
                  boundaryEnd |-> rangeEnd,
                  cutPoint |-> cutPoint,
                  firstKeptEntryId |-> cutPoint.firstKeptEntryIndex,
                  historyEnd |-> historyEnd,
                  messagesToSummarize |-> MessagesIn(sessionEntries, rangeStart, historyEnd),
                  turnPrefixMessages |->
                      IF cutPoint.isSplitTurn
                      THEN MessagesIn(sessionEntries, cutPoint.turnStartIndex,
                                      cutPoint.firstKeptEntryIndex)
                      ELSE <<>>,
                  isSplitTurn |-> cutPoint.isSplitTurn,
                  tokensBefore |-> EstimatedTokens(sessionEntries,
                                       MessagesIn(sessionEntries, usageStart, rangeEnd)),
                  previousSummary |-> prevCompactionIndex >= 0,
                  fileOps |-> fileOps]

\* what formatFileOperations appends to the summary
FileOperations == {<<>>, <<"<read-files>">>}

\* the stopReason of a summarization response
SummaryStopReasons == {"stop", "aborted", "error"}

\* the pieces a summary is made of
Separator == "\n\n---\n\n**Turn Context (split turn):**\n\n"
NoPriorHistory == "No prior history."
HistoryText == "history summary"
TurnPrefixText == "turn prefix summary"

Pending == [state |-> "pending", text |-> ""]
Fulfilled(text) == [state |-> "resolved", text |-> text]
Rejected == [state |-> "rejected", text |-> ""]

CompactInit ==
    /\ LoopUnused
    /\ TransformIdle
    /\ StreamIdle
    /\ CompactIdle
    /\ ProxyIdle
    /\ EstimateIdle
    /\ pathEntries \in SeqsUpTo(SessionEntries, MaxEntries)
    /\ boundaryStart = 0
    /\ boundaryEnd = 0
    /\ cuts = <<>>

\* the caller prepares a compaction of the session
PrepareCompaction(keepRecentTokens, fileOps) ==
    /\ preparation.state = "none"
    /\ preparation' = prepareCompaction(pathEntries, keepRecentTokens, fileOps)
    /\ boundaryStart' = IF preparation'.state = "prepared"
                        THEN preparation'.boundaryStart ELSE boundaryStart
    /\ boundaryEnd' = IF preparation'.state = "prepared"
                      THEN preparation'.boundaryEnd ELSE boundaryEnd
    /\ UNCHANGED <<pathEntries, cuts, summaries, compaction>>
    /\ UNCHANGED <<loopVars, transformVars, streamVars, proxyVars, estimateVars>>

\* lines 824-853: the calls compact starts
\* lines 616-632: the prompt generateSummary builds, given previousSummary
BasePrompt(previousSummary) == IF previousSummary THEN "update" ELSE "initial"

\* prompt is the one of the generateSummary call, "none" when it is not called
StartedCalls ==
    IF preparation.isSplitTurn /\ Len(preparation.turnPrefixMessages) > 0
    THEN [history |-> IF Len(preparation.messagesToSummarize) > 0
                      THEN Pending ELSE Fulfilled(NoPriorHistory),
          prefix |-> Pending,
          order |-> <<>>,
          prompt |-> IF Len(preparation.messagesToSummarize) > 0
                     THEN BasePrompt(preparation.previousSummary) ELSE "none"]
    ELSE [history |-> Pending, prefix |-> NoCall, order |-> <<>>,
          prompt |-> BasePrompt(preparation.previousSummary)]

\* lines 803-853: compact runs up to its await
Compact ==
    /\ preparation.state = "prepared"
    /\ compaction.state = "none"
    /\ summaries' = StartedCalls
    /\ compaction' = [state |-> "running"]
    /\ UNCHANGED <<cutVars, preparation>>
    /\ UNCHANGED <<loopVars, transformVars, streamVars, proxyVars, estimateVars>>

\* lines 642-657 and 893-906: the model answers one of the calls
SummaryResponse(call, stopReason) ==
    /\ summaries[call].state = "pending"
    /\ summaries' =
           [summaries EXCEPT
               ![call] = IF stopReason = "error" THEN Rejected
                         ELSE Fulfilled(IF call = "history" THEN HistoryText
                                        ELSE TurnPrefixText),
               !.order = Append(@, call)]
    /\ UNCHANGED <<cutVars, preparation, compaction>>
    /\ UNCHANGED <<loopVars, transformVars, streamVars, proxyVars, estimateVars>>

\* Promise.all / await: rejected as soon as one call is, fulfilled when no
\* call is pending
AwaitRejected ==
    summaries.history.state = "rejected" \/ summaries.prefix.state = "rejected"
AwaitFulfilled ==
    /\ summaries.history.state = "resolved"
    /\ summaries.prefix.state \in {"resolved", "unused"}

\* the summary is merged in the order the calls settled
MergedSummaryBySettling ==
    IF summaries.prefix.state = "unused" THEN <<summaries.history.text>>
    ELSE IF summaries.order # <<>> /\ summaries.order[1] = "prefix"
    THEN <<summaries.prefix.text, Separator, summaries.history.text>>
    ELSE <<summaries.history.text, Separator, summaries.prefix.text>>

\* line 841, or the one summary of line 844
MergedSummary ==
    IF summaries.prefix.state = "unused" THEN <<summaries.history.text>>
    ELSE <<summaries.history.text, Separator, summaries.prefix.text>>

\* a failed summarization returns what the other call gave
CompactSettlesPartial ==
    /\ compaction.state = "running"
    /\ \/ AwaitRejected
          /\ compaction' = [state |-> "returned",
                            summary |-> <<summaries.history.text, summaries.prefix.text>>,
                            firstKeptEntryId |-> preparation.firstKeptEntryId,
                            tokensBefore |-> preparation.tokensBefore]
       \/ ~AwaitRejected /\ AwaitFulfilled
          /\ compaction' = [state |-> "returned",
                            summary |-> MergedSummary \o preparation.fileOps,
                            firstKeptEntryId |-> preparation.firstKeptEntryId,
                            tokensBefore |-> preparation.tokensBefore]
    /\ UNCHANGED <<cutVars, preparation, summaries>>
    /\ UNCHANGED <<loopVars, transformVars, streamVars, proxyVars, estimateVars>>

\* lines 826-868: compact goes on after its await, throwing or returning
CompactSettles ==
    /\ compaction.state = "running"
    /\ \/ AwaitRejected
          /\ compaction' = [state |-> "threw"]
       \/ ~AwaitRejected /\ AwaitFulfilled
          /\ compaction' = [state |-> "returned",
                            summary |-> MergedSummary \o preparation.fileOps,
                            firstKeptEntryId |-> preparation.firstKeptEntryId,
                            tokensBefore |-> preparation.tokensBefore]
    /\ UNCHANGED <<cutVars, preparation, summaries>>
    /\ UNCHANGED <<loopVars, transformVars, streamVars, proxyVars, estimateVars>>

CompactNext ==
    \/ \E keepRecentTokens \in 1..MaxKeep, fileOps \in FileOperations :
           PrepareCompaction(keepRecentTokens, fileOps)
    \/ Compact
    \/ \E call \in {"history", "prefix"}, stopReason \in SummaryStopReasons :
           SummaryResponse(call, stopReason)
    \/ CompactSettles

CompactSpec == CompactInit /\ [][CompactNext]_vars

(***************************************************************************)
(* streamProxy and processProxyEvent.                                      *)
(***************************************************************************)
ContentIndices == 0..(MaxBlocks - 1)

\* content blocks of the partial message; a text is the sequence of the
\* deltas it was put together from, "" stands for an absent signature
Hole == [type |-> "hole"]
ProxyText(text, textSignature) ==
    [type |-> "text", text |-> text, textSignature |-> textSignature]
ProxyThinking(thinking, thinkingSignature) ==
    [type |-> "thinking", thinking |-> thinking, thinkingSignature |-> thinkingSignature]
\* parseStreamingJson(partialJson) || {}: the arguments read from the JSON
\* text received so far
parseStreamingJson(partialJson) ==
    IF partialJson = <<>> THEN <<"{}">> ELSE <<"parsed">> \o partialJson

\* hasPartialJson is FALSE once the partialJson field was deleted
ProxyToolCall(id, name, partialJson, hasPartialJson) ==
    [type |-> "toolCall", id |-> id, name |-> name,
     arguments |-> parseStreamingJson(partialJson),
     partialJson |-> partialJson, hasPartialJson |-> hasPartialJson]

\* lines 117-133
InitialPartial(timestamp) ==
    [role |-> "assistant", stopReason |-> "stop",
     content |-> [i \in ContentIndices |-> Hole],
     usage |-> 0, errorMessage |-> "", timestamp |-> timestamp]

\* lines 63-84: what the server may send on a data line
Deltas == {"a", "b"}
PE(type, contentIndex, delta) ==
    [type |-> type, contentIndex |-> contentIndex, delta |-> delta, reason |-> "",
     usage |-> 0]
ToolCallIdAt(contentIndex) == IF contentIndex = 0 THEN "call_0" ELSE "call_n"
ProxyEvents ==
    {PE("start", 0, "")}
    \cup {PE(type, i, "") : type \in {"text_start", "text_end", "thinking_start",
                                       "thinking_end", "toolcall_start", "toolcall_end"},
                            i \in ContentIndices}
    \cup {PE(type, i, d) : type \in {"text_delta", "thinking_delta", "toolcall_delta"},
                           i \in ContentIndices, d \in Deltas}
    \cup {[PE("done", 0, "") EXCEPT !.reason = r, !.usage = 7] : r \in {"stop", "toolUse"}}
    \cup {[PE("error", 0, "") EXCEPT !.reason = "error", !.usage = 3]}

\* a delta replaces what was there
AppendDeltaOverwrites(text, delta) == <<delta>>

\* content.text += proxyEvent.delta
AppendDelta(text, delta) == Append(text, delta)

Processed(partialMessage, type) == [threw |-> FALSE, partial |-> partialMessage, event |-> type]
Thrown(partialMessage) == [threw |-> TRUE, partial |-> partialMessage, event |-> "none"]

\* lines 241-371: the partial message after the event, the type of the event
\* handed back ("none" for undefined), or that the function threw
processProxyEvent(proxyEvent, partialMessage) ==
    LET i == proxyEvent.contentIndex
        content == partialMessage.content[i]
        With(block) == [partialMessage EXCEPT !.content[i] = block]
    IN CASE proxyEvent.type = "start" -> Processed(partialMessage, "start")
         [] proxyEvent.type = "text_start" ->
                Processed(With(ProxyText(<<>>, "")), "text_start")
         [] proxyEvent.type = "text_delta" ->
                IF content.type = "text"
                THEN Processed(With([content EXCEPT
                                        !.text = AppendDelta(@, proxyEvent.delta)]),
                               "text_delta")
                ELSE Thrown(partialMessage)
         [] proxyEvent.type = "text_end" ->
                IF content.type = "text"
                THEN Processed(With([content EXCEPT !.textSignature = "sig"]), "text_end")
                ELSE Thrown(partialMessage)
         [] proxyEvent.type = "thinking_start" ->
                Processed(With(ProxyThinking(<<>>, "")), "thinking_start")
         [] proxyEvent.type = "thinking_delta" ->
                IF content.type = "thinking"
                THEN Processed(With([content EXCEPT
                                        !.thinking = AppendDelta(@, proxyEvent.delta)]),
                               "thinking_delta")
                ELSE Thrown(partialMessage)
         [] proxyEvent.type = "thinking_end" ->
                IF content.type = "thinking"
                THEN Processed(With([content EXCEPT !.thinkingSignature = "sig"]),
                               "thinking_end")
                ELSE Thrown(partialMessage)
         [] proxyEvent.type = "toolcall_start" ->
                Processed(With(ProxyToolCall(ToolCallIdAt(i), "ls", <<>>, TRUE)),
                          "toolcall_start")
         [] proxyEvent.type = "toolcall_delta" ->
                IF content.type = "toolCall"
                THEN Processed(With(ProxyToolCall(content.id, content.name,
                                        IF content.hasPartialJson
                                        THEN Append(content.partialJson, proxyEvent.delta)
                                        ELSE <<"undefined", proxyEvent.delta>>,
                                        TRUE)),
                               "toolcall_delta")
                ELSE Thrown(partialMessage)
         [] proxyEvent.type = "toolcall_end" ->
                IF content.type = "toolCall"
                THEN Processed(With([content EXCEPT !.partialJson = <<>>,
                                                    !.hasPartialJson = FALSE]),
                               "toolcall_end")
                ELSE Processed(partialMessage, "none")
         [] proxyEvent.type = "done" ->
                Processed([partialMessage EXCEPT !.stopReason = proxyEvent.reason,
                                          !.usage = proxyEvent.usage], "done")
         [] OTHER ->
                Processed([partialMessage EXCEPT !.stopReason = proxyEvent.reason,
                                          !.errorMessage = "from server",
                                          !.usage = proxyEvent.usage], "error")

\* what was sent, summed up as the codec's contract reads it: per content
\* index the announced type and its deltas in order; phase tells whether
\* the sequence is conformant so far (start, then per index start / deltas /
\* end, indices in order, then done)
NothingSent ==
    [phase |-> "init",
     blocks |-> [i \in ContentIndices |-> [state |-> "none", type |-> "", deltas |-> <<>>]],
     reason |-> "", usage |-> 0]

KindOf(type) ==
    CASE type \in {"text_start", "text_delta", "text_end"} -> "text"
      [] type \in {"thinking_start", "thinking_delta", "thinking_end"} -> "thinking"
      [] OTHER -> "toolCall"

Track(seen, proxyEvent) ==
    LET i == proxyEvent.contentIndex
        Broken == [seen EXCEPT !.phase = "broken"]
    IN IF seen.phase = "init"
       THEN IF proxyEvent.type = "start" THEN [seen EXCEPT !.phase = "started"] ELSE Broken
       ELSE IF seen.phase # "started" THEN Broken
       ELSE CASE proxyEvent.type \in {"text_start", "thinking_start", "toolcall_start"} ->
                     IF /\ seen.blocks[i].state = "none"
                        /\ \A j \in ContentIndices : j < i => seen.blocks[j].state # "none"
                     THEN [seen EXCEPT !.blocks[i] = [state |-> "open",
                                                      type |-> KindOf(proxyEvent.type),
                                                      deltas |-> <<>>]]
                     ELSE Broken
              [] proxyEvent.type \in {"text_delta", "thinking_delta", "toolcall_delta"} ->
                     IF /\ seen.blocks[i].state = "open"
                        /\ seen.blocks[i].type = KindOf(proxyEvent.type)
                     THEN [seen EXCEPT !.blocks[i].deltas = Append(@, proxyEvent.delta)]
                     ELSE Broken
              [] proxyEvent.type \in {"text_end", "thinking_end", "toolcall_end"} ->
                     IF /\ seen.blocks[i].state = "open"
                        /\ seen.blocks[i].type = KindOf(proxyEvent.type)
                     THEN [seen EXCEPT !.blocks[i].state = "closed"]
                     ELSE Broken
              [] proxyEvent.type = "done" ->
                     IF \A j \in ContentIndices : seen.blocks[j].state # "open"
                     THEN [seen EXCEPT !.phase = "done", !.reason = proxyEvent.reason,
                                       !.usage = proxyEvent.usage]
                     ELSE Broken
              [] OTHER -> Broken

\* stream.push(event): a done or error event ends the stream and resolves
\* result() with event.message / event.error, which is the partial message
\* object itself; final keeps what it held at that moment
PushToProxyStream(stream0, lines, type, partialMessage) ==
    IF stream0.done \/ type = "none" THEN stream0
    ELSE IF type \in {"done", "error"}
    THEN [done |-> TRUE, resolved |-> TRUE, result |-> "partial", final |-> partialMessage,
          terminalAt |-> lines,
          terminal |-> [type |-> type, reason |-> partialMessage.stopReason]]
    ELSE stream0

\* the message result() gives when read now
ResultMessage ==
    IF proxyStream.result = "partial" THEN proxyPartial ELSE proxyStream.final

\* the reason is error whatever the signal says
CatchAlwaysError ==
    LET failed == [proxyPartial EXCEPT !.stopReason = "error", !.errorMessage = "thrown"]
    IN /\ proxyPartial' = failed
       /\ proxyStream' = [PushToProxyStream(proxyStream, proxy.lines, "error", failed)
                             EXCEPT !.done = TRUE]
       /\ proxy' = [proxy EXCEPT !.pc = "ended", !.failed = ~proxyStream.done]
       /\ UNCHANGED sent

\* lines 217-227: the catch block; failed: it ran with no terminal event
\* delivered before
Catch ==
    LET failed == [proxyPartial EXCEPT
                      !.stopReason = IF proxy.aborted THEN "aborted" ELSE "error",
                      !.errorMessage = "thrown"]
    IN /\ proxyPartial' = failed
       /\ proxyStream' = [PushToProxyStream(proxyStream, proxy.lines, "error", failed)
                             EXCEPT !.done = TRUE]
       /\ proxy' = [proxy EXCEPT !.pc = "ended", !.failed = ~proxyStream.done]
       /\ UNCHANGED sent

ProxyInit ==
    /\ LoopUnused
    /\ TransformIdle
    /\ StreamIdle
    /\ CutIdle
    /\ CompactIdle
    /\ EstimateIdle
    /\ proxy = [pc |-> "fetching", aborted |-> FALSE, lines |-> 0, failed |-> FALSE,
                abortedInTime |-> FALSE]
    /\ proxyPartial = InitialPartial("now")
    /\ proxyStream = [done |-> FALSE, resolved |-> FALSE, result |-> "none",
                      final |-> [role |-> "none"], terminalAt |-> 0,
                      terminal |-> [type |-> "none", reason |-> ""]]
    /\ sent = NothingSent

\* lines 150-181: the fetch answers
ProxyFetch(ok) ==
    /\ proxy.pc = "fetching"
    /\ IF ok /\ ~proxy.aborted
       THEN /\ proxy' = [proxy EXCEPT !.pc = "reading"]
            /\ UNCHANGED <<proxyPartial, proxyStream, sent>>
       ELSE Catch
    /\ UNCHANGED <<loopVars, transformVars, streamVars, cutVars, compactVars, estimateVars>>

\* lines 185-209: a chunk with one data line is read
ProxyLine(proxyEvent) ==
    /\ proxy.pc = "reading"
    /\ proxy.lines < MaxLines
    /\ IF proxy.aborted THEN Catch
       ELSE LET r == processProxyEvent(proxyEvent, proxyPartial) IN
            IF r.threw
            THEN /\ Catch
            ELSE /\ proxyPartial' = r.partial
                 /\ proxyStream' = PushToProxyStream(proxyStream, proxy.lines + 1,
                                                     r.event, r.partial)
                 /\ proxy' = [proxy EXCEPT !.lines = @ + 1]
                 /\ sent' = Track(sent, proxyEvent)
    /\ UNCHANGED <<loopVars, transformVars, streamVars, cutVars, compactVars, estimateVars>>

\* lines 186-187 and 212-216: the body ends
ProxyBodyEnds ==
    /\ proxy.pc = "reading"
    /\ IF proxy.aborted THEN Catch
       ELSE /\ proxyStream' = [proxyStream EXCEPT !.done = TRUE]
            /\ proxy' = [proxy EXCEPT !.pc = "ended"]
            /\ UNCHANGED <<proxyPartial, sent>>
    /\ UNCHANGED <<loopVars, transformVars, streamVars, cutVars, compactVars, estimateVars>>

\* line 186: reader.read() rejects
ProxyReadFails ==
    /\ proxy.pc = "reading"
    /\ Catch
    /\ UNCHANGED <<loopVars, transformVars, streamVars, cutVars, compactVars, estimateVars>>

\* the caller fires the abort signal
ProxyAbort ==
    /\ proxy.pc \in {"fetching", "reading"}
    /\ ~proxy.aborted
    \* abortedInTime: no terminal event had been delivered when the signal fired
    /\ proxy' = [proxy EXCEPT !.aborted = TRUE, !.abortedInTime = ~proxyStream.done]
    /\ UNCHANGED <<proxyPartial, proxyStream, sent>>
    /\ UNCHANGED <<loopVars, transformVars, streamVars, cutVars, compactVars, estimateVars>>

ProxyNext ==
    \/ \E ok \in BOOLEAN : ProxyFetch(ok)
    \/ \E proxyEvent \in ProxyEvents : ProxyLine(proxyEvent)
    \/ ProxyBodyEnds
    \/ ProxyReadFails
    \/ ProxyAbort

ProxySpec == ProxyInit /\ [][ProxyNext]_vars

(***************************************************************************)
(* estimateTokens in detail: a message's content is a string or a list of  *)
(* blocks; every text is stood for by its length.                          *)
(***************************************************************************)
StringContent(length) == [kind |-> "string", length |-> length, blocks |-> <<>>]
BlockContent(blocks) == [kind |-> "array", length |-> 0, blocks |-> blocks]

TextChars(length) == [type |-> "text", chars |-> length]
ThinkingChars(length) == [type |-> "thinking", chars |-> length]
\* name.length + JSON.stringify(arguments).length
ToolCallChars(nameLength, jsonLength) == [type |-> "toolCall", chars |-> nameLength + jsonLength]
ImageBlock == [type |-> "image", chars |-> 0]

AgentMessage(role, content) == [role |-> role, content |-> content]

\* messages estimateTokens is called with
EstimateInputs ==
    {AgentMessage(role, c) :
        role \in {"user", "toolResult", "custom"},
        c \in {StringContent(0), StringContent(5),
               BlockContent(<<TextChars(5)>>),
               BlockContent(<<TextChars(0), TextChars(3)>>),
               BlockContent(<<ImageBlock>>),
               BlockContent(<<TextChars(3), ImageBlock>>),
               BlockContent(<<ImageBlock, TextChars(6), ImageBlock>>)}}
    \cup {AgentMessage("assistant", BlockContent(blocks)) :
             blocks \in {<<>>, <<TextChars(3), ThinkingChars(2)>>,
                         <<ThinkingChars(4), ToolCallChars(2, 7)>>}}
    \* command and output, or the summary, taken together as one text
    \cup {AgentMessage(role, StringContent(n)) :
             role \in {"bashExecution", "branchSummary", "compactionSummary"},
             n \in {0, 7}}
    \cup {AgentMessage("unknown", StringContent(4))}

\* Math.ceil(chars / 4)
CeilQuarter(chars) == (chars + 3) \div 4

\* chars counted by the loop of the user case
RECURSIVE UserChars(_)
UserChars(blocks) ==
    IF blocks = <<>> THEN 0
    ELSE (IF Head(blocks).type = "text" THEN Head(blocks).chars ELSE 0)
         + UserChars(Tail(blocks))

\* chars counted by the loop of the assistant case
RECURSIVE AssistantChars(_)
AssistantChars(blocks) ==
    IF blocks = <<>> THEN 0
    ELSE (IF Head(blocks).type \in {"text", "thinking", "toolCall"}
          THEN Head(blocks).chars ELSE 0)
         + AssistantChars(Tail(blocks))

\* chars counted by the loop of the custom / toolResult case
RECURSIVE ToolResultChars(_)
ToolResultChars(blocks) ==
    IF blocks = <<>> THEN 0
    ELSE (IF Head(blocks).type = "text" THEN Head(blocks).chars ELSE 0)
         + (IF Head(blocks).type = "image" THEN 4800 ELSE 0)
         + ToolResultChars(Tail(blocks))

\* lines 261-328
estimateMessageTokens(agentMessage) ==
    LET c == agentMessage.content
    IN CASE agentMessage.role = "user" ->
                CeilQuarter(IF c.kind = "string" THEN c.length ELSE UserChars(c.blocks))
         [] agentMessage.role = "assistant" ->
                CeilQuarter(AssistantChars(c.blocks))
         [] agentMessage.role \in {"custom", "toolResult"} ->
                CeilQuarter(IF c.kind = "string" THEN c.length
                            ELSE ToolResultChars(c.blocks))
         [] agentMessage.role \in {"bashExecution", "branchSummary",
                                   "compactionSummary"} ->
                CeilQuarter(c.length)
         [] OTHER -> 0

EstimateInit ==
    /\ LoopUnused
    /\ TransformIdle
    /\ StreamIdle
    /\ CutIdle
    /\ CompactIdle
    /\ ProxyIdle
    /\ estimates = <<>>

\* one call of estimateTokens, as estimateContextTokens and findCutPoint make
\* them one message after the other
EstimateTokens(agentMessage) ==
    /\ pc = "unused"
    /\ proxy.pc = "unused"
    /\ Len(estimates) < MaxEstimates
    /\ estimates' = Append(estimates, [message |-> agentMessage,
                                       tokens |-> estimateMessageTokens(agentMessage)])
    /\ UNCHANGED <<loopVars, transformVars, streamVars, cutVars, compactVars, proxyVars>>

EstimateNext == \E agentMessage \in EstimateInputs : EstimateTokens(agentMessage)

EstimateSpec == EstimateInit /\ [][EstimateNext]_vars

(***************************************************************************)
(* C4  Orphan closure.                                                     *)
(***************************************************************************)
\* a message that ends the stretch in which an assistant's results may lie
EndsResults(msg) ==
    \/ msg.role = "user"
    \/ msg.role = "assistant" /\ Len(TToolCalls(msg)) > 0

\* the tool call of out[p] with id `id` has a result after p, before the next
\* user message or assistant message with tool calls
HasResult(out, p, id) ==
    \E q \in (p + 1)..Len(out) :
        /\ out[q].role = "toolResult"
        /\ out[q].toolCallId = id
        /\ \A r \in (p + 1)..(q - 1) : ~EndsResults(out[r])

ClosedAt(out, p) ==
    \A i \in 1..Len(TToolCalls(out[p])) : HasResult(out, p, TToolCalls(out[p])[i].id)

\* some user message or assistant message with tool calls follows out[p]
Followed(out, p) == \E r \in (p + 1)..Len(out) : EndsResults(out[r])

\* C4: in the output of transformMessages every tool call of every retained
\* assistant message has a toolResult with its id, after that message and before
\* the next user message or assistant message with tool calls - also when the
\* assistant message is the last one of the history.
C4_OrphanClosure ==
    tPc \in {"done", "twice"} =>
        \A p \in 1..Len(tOut) : tOut[p].role = "assistant" => ClosedAt(tOut, p)

\* what the code does guarantee: closure for every assistant message that a user
\* message or an assistant message with tool calls follows
OrphanClosureWhenFollowed ==
    tPc \in {"done", "twice"} =>
        \A p \in 1..Len(tOut) :
            (tOut[p].role = "assistant" /\ Followed(tOut, p)) => ClosedAt(tOut, p)


(***************************************************************************)
(* C1  Event ordering.                                                     *)
(***************************************************************************)
\* the automaton of
\*   agent_start (turn_start (message_start message_update* message_end
\*     | tool_execution_start tool_execution_update* tool_execution_end)* turn_end)*
\*   agent_end
\* a state is <<where, the id of the open tool execution>>
GrammarStep(q, e) ==
    LET where == q[1] IN
    IF where = "begin" /\ e.type = "agent_start" THEN <<"between", 0>>
    ELSE IF where = "between" /\ e.type = "turn_start" THEN <<"turn", 0>>
    ELSE IF where = "between" /\ e.type = "agent_end" THEN <<"end", 0>>
    ELSE IF where = "turn" /\ e.type = "message_start" THEN <<"message", 0>>
    ELSE IF where = "turn" /\ e.type = "tool_execution_start" THEN <<"tool", e.ref>>
    ELSE IF where = "turn" /\ e.type = "turn_end" THEN <<"between", 0>>
    ELSE IF where = "message" /\ e.type = "message_update" THEN q
    ELSE IF where = "message" /\ e.type = "message_end" THEN <<"turn", 0>>
    ELSE IF where = "tool" /\ e.type = "tool_execution_update" /\ e.ref = q[2] THEN q
    ELSE IF where = "tool" /\ e.type = "tool_execution_end" /\ e.ref = q[2] THEN <<"turn", 0>>
    ELSE <<"bad", 0>>

RECURSIVE GrammarRun(_, _)
GrammarRun(q, es) == IF es = <<>> THEN q ELSE GrammarRun(GrammarStep(q, Head(es)), Tail(es))

GrammarState == GrammarRun(<<"begin", 0>>, events)[1]

CountType(es, type) == Cardinality({i \in 1..Len(es) : es[i].type = type})

\* C1: the events pushed so far are always a prefix of a word of the grammar
\* (every turn_start is closed by turn_end before the next turn_start or
\* agent_end, every tool_execution_update lies inside its call's start / end
\* pair), and when the run has ended the whole trace is a word of it.
C1_EventGrammar ==
    /\ GrammarState # "bad"
    /\ pc = "done" => GrammarState = "end"

\* a finished run of two turns with a streamed message, a relayed tool update
\* and a skipped tool call
C1_Witness ==
    /\ pc = "done"
    /\ CountType(events, "turn_start") = 2
    /\ CountType(events, "message_update") > 0
    /\ CountType(events, "tool_execution_update") > 0
    /\ \E i \in 1..Len(newMessages) :
         newMessages[i].role = "toolResult" /\ newMessages[i].text = SkippedText


(***************************************************************************)
(* C2  One toolResult and one start / end pair per tool call.              *)
(***************************************************************************)
CountEvent(type, ref) ==
    Cardinality({i \in 1..Len(events) : events[i].type = type /\ events[i].ref = ref})

\* context holds m at position p, followed by exactly the results of its calls
ResultsFollow(m, p) ==
    LET calls == m.toolCalls
        n == Len(calls)
    IN /\ context[p].role = "assistant"
       /\ context[p] = m
       /\ p + n <= Len(context)
       /\ \A k \in 1..n :
            /\ context[p + k].role = "toolResult"
            /\ context[p + k].toolCallId = calls[k].id
       /\ p + n < Len(context) => context[p + n + 1].role # "toolResult"

\* C2: once turn_end is emitted for an assistant message that did not end in
\* error / aborted, the context holds, right after that message, exactly one
\* toolResult per tool call, with the calls' ids in the calls' order, and the
\* trace holds exactly one tool_execution_start and one tool_execution_end
\* per tool call.
C2_ResultPerToolCall ==
    \A i \in 1..Len(events) :
        (events[i].type = "turn_end"
         /\ events[i].ref.message.stopReason \notin {"error", "aborted"}) =>
            LET m == events[i].ref.message IN
            /\ \E p \in 1..Len(context) : ResultsFollow(m, p)
            /\ \A k \in 1..Len(m.toolCalls) :
                 /\ CountEvent("tool_execution_start", m.toolCalls[k].id) = 1
                 /\ CountEvent("tool_execution_end", m.toolCalls[k].id) = 1

\* a turn has ended whose message carried two calls: the first one threw, the
\* second one was skipped
C2_Witness ==
    \E i \in 1..Len(events) :
        /\ events[i].type = "turn_end"
        /\ Len(events[i].ref.message.toolCalls) = 2
        /\ Len(events[i].ref.toolResults) = 2
        /\ events[i].ref.toolResults[1].text = "threw"
        /\ events[i].ref.toolResults[2].text = SkippedText


(***************************************************************************)
(* C3  Steering skips the remaining tool calls.                            *)
(***************************************************************************)
\* the assistant message the run got from model call t
AssistantOfTurn(t) ==
    CHOOSE x \in {newMessages[i] : i \in 1..Len(newMessages)} :
        x.role = "assistant" /\ x.turn = t

IsSkipResultOf(msg, call) ==
    /\ msg.role = "toolResult"
    /\ msg.toolCallId = call.id
    /\ msg.isError
    /\ msg.text = "Skipped due to queued user message."

\* poll P returned a steering batch right after tool call P.index of its turn
SteeredAfterTool(P) ==
    P.kind = "steering" /\ P.where = "afterTool" /\ ~P.threw /\ P.batch # <<>>

\* what C3 says of one such poll
SkipsAfter(P) ==
    LET m == AssistantOfTurn(P.turn)
        calls == m.toolCalls
        n == Len(calls)
        i == P.index
        turnEnd == P.at + 4 * (n - i) + 1
        B == P.batch
    IN \* no later call of the message is ever executed
       /\ \A j \in (i + 1)..n : \A x \in 1..Len(executed) : executed[x] # calls[j].id
       \* each gets its skip result, in order, right after the results so far
       /\ \E p \in 1..Len(context) :
            /\ context[p].role = "assistant" /\ context[p] = m
            /\ p + n <= Len(context)
            /\ \A j \in (i + 1)..n : IsSkipResultOf(context[p + j], calls[j])
            \* the batch follows in the context once the next model call is made,
            \* and the next assistant message comes after it
            /\ turns > P.turn =>
                 /\ p + n + Len(B) <= Len(context)
                 /\ SubSeq(context, p + n + 1, p + n + Len(B)) = B
                 /\ Len(context) > p + n + Len(B) =>
                      /\ context[p + n + Len(B) + 1].role = "assistant"
                      /\ context[p + n + Len(B) + 1].turn = P.turn + 1
       \* and its own tool_execution_start / end and message_start / end
       /\ Len(events) >= turnEnd
       /\ \A j \in (i + 1)..n :
            LET base == P.at + 4 * (j - i - 1) IN
            /\ events[base + 1] = Event("tool_execution_start", calls[j].id)
            /\ events[base + 2] = Event("tool_execution_end", calls[j].id)
            /\ events[base + 3].type = "message_start"
            /\ IsSkipResultOf(events[base + 3].ref, calls[j])
            /\ events[base + 4].type = "message_end"
            /\ IsSkipResultOf(events[base + 4].ref, calls[j])
       /\ events[turnEnd].type = "turn_end"
       \* the next turn opens with the batch, before anything of the model
       /\ Len(events) > turnEnd =>
            /\ Len(events) >= turnEnd + 1 + 2 * Len(B)
            /\ SubSeq(events, turnEnd + 1, turnEnd + 1 + 2 * Len(B))
                 = <<Event("turn_start", 0)>> \o MessagesEvents(B)
       /\ turns > P.turn => Len(events) > turnEnd
       /\ pc = "done" => turns > P.turn

\* C3: when getSteeringMessages returns a non-empty batch right after tool call
\* i, no call j > i of that message is ever executed, each gets in order a
\* toolResult with isError and the text "Skipped due to queued user message."
\* with its own events, and the batch is appended to the context at the start
\* of the next turn, before the next model call.
C3_SteeringSkips ==
    \A k \in 1..Len(polls) : SteeredAfterTool(polls[k]) => SkipsAfter(polls[k])

\* steering arrived after the first of two calls, which was executed, and the
\* next model call has been made
C3_Witness ==
    \E k \in 1..Len(polls) :
        /\ SteeredAfterTool(polls[k])
        /\ polls[k].index = 1
        /\ Len(AssistantOfTurn(polls[k].turn).toolCalls) = 2
        /\ executed = <<AssistantOfTurn(polls[k].turn).toolCalls[1].id>>
        /\ turns > polls[k].turn


(***************************************************************************)
(* C5  A response that ends in error / aborted ends the run.               *)
(***************************************************************************)
FailedAt(i) ==
    /\ newMessages[i].role = "assistant"
    /\ newMessages[i].stopReason \in {"error", "aborted"}

\* what C5 says of the failed response newMessages[i]
EndsRun(i) ==
    LET m == newMessages[i]
        n == Len(events)
    IN /\ i = Len(newMessages)
       /\ pc = "done"
       /\ streamDone
       /\ n >= 3
       /\ events[n - 2] = Event("message_end", m)
       /\ events[n - 1] = Event("turn_end", [message |-> m, toolResults |-> <<>>])
       /\ events[n] = Event("agent_end", newMessages)
       \* no tool call of the message is executed or even started
       /\ \A k \in 1..Len(m.toolCalls) :
            /\ \A x \in 1..Len(executed) : executed[x] # m.toolCalls[k].id
            /\ CountEvent("tool_execution_start", m.toolCalls[k].id) = 0
       \* no toolResult is appended
       /\ Last(context) = m
       \* every poll was made before the response ended
       /\ \A k \in 1..Len(polls) : polls[k].at <= n - 3

\* C5: when an assistant response ends with stopReason error or aborted, the
\* loop emits turn_end with an empty toolResults list, then agent_end, and ends
\* the stream; no tool call of that message is executed, no toolResult is
\* appended, and neither getSteeringMessages nor getFollowUpMessages is polled
\* afterwards.
C5_FailedResponseEndsRun ==
    \A i \in 1..Len(newMessages) : FailedAt(i) => EndsRun(i)

\* the second response failed with error, carrying a tool call, after polls
C5_Witness ==
    /\ newMessages # <<>>
    /\ FailedAt(Len(newMessages))
    /\ Last(newMessages).stopReason = "error"
    /\ Last(newMessages).toolCalls # <<>>
    /\ turns = 2
    /\ polls # <<>>

(***************************************************************************)
(* C6  Cancellation.                                                       *)
(***************************************************************************)
\* the run ended on an aborted response, agent_end carrying all it produced
EndedAborted ==
    /\ pc = "done"
    /\ streamDone
    /\ newMessages # <<>>
    /\ Last(newMessages).role = "assistant"
    /\ Last(newMessages).stopReason = "aborted"
    /\ Last(events) = Event("agent_end", newMessages)
    /\ context = initialMessages \o newMessages

CancellationBound ==
    abortInfo.fired =>
        \* at most one further model call is started
        /\ turns <= abortInfo.turns + 1
        \* a model stream in flight: that call is the last one
        /\ abortInfo.pc = "streaming" =>
             /\ turns = abortInfo.turns
             /\ pc \in {"streaming", "done"}
        \* a tool in flight: the next model call is the last one
        /\ turns > abortInfo.turns => pc \in {"streaming", "done"}
        /\ pc = "done" => EndedAborted

\* C6: once the cancellation token has fired while a model stream or a tool
\* execution was in flight, at most one further model call is started, the run
\* terminates (callbacks returning), and it ends with agent_end carrying every
\* message produced so far, the last one an assistant message with stopReason
\* aborted.
C6_Cancellation ==
    /\ []CancellationBound
    /\ [](pc # "crashed") => (abortInfo.fired ~> EndedAborted)

\* the token fired during a tool execution of the first turn; one more model
\* call was made and the run ended
C6_Witness ==
    /\ abortInfo.fired
    /\ abortInfo.pc = "toolExec"
    /\ turns = abortInfo.turns + 1
    /\ EndedAborted
    /\ Len(newMessages) > 2

(***************************************************************************)
(* C7  Failures of the caller's callbacks.                                 *)
(***************************************************************************)
\* C7: when a callback invoked by the loop throws or rejects, the run's stream
\* still reaches a terminal state: it is ended and result() settles.
C7_FailuresSurface ==
    pc = "crashed" => (streamDone /\ streamResult.resolved)


(***************************************************************************)
(* C8  Termination.                                                        *)
(***************************************************************************)
\* a finished run: exactly one agent_end, the last event, on an ended stream
EndedOnce ==
    pc = "done" =>
        /\ CountType(events, "agent_end") = 1
        /\ Last(events).type = "agent_end"
        /\ streamDone
        /\ streamResult.resolved

\* the step begins another pass of the inner loop (which may fail in a callback
\* before the model is called)
PassBegins == turns' = turns + 1 \/ (pc' = "crashed" /\ polls' = polls)

\* the last turn had tool calls
HadToolCalls == message # NoMessage /\ Len(message.toolCalls) > 0

\* at the loop condition: another pass begins exactly when the last turn had
\* tool calls or messages are pending (the first pass always runs)
InnerLoopRule ==
    pc = "turn" => (PassBegins <=> (firstTurn \/ HadToolCalls \/ pendingMessages # <<>>))

\* every model request gets a stream that yields a terminal event, and every
\* callback returns
EnvironmentAnswers == pc \notin {"crashed", "hung", "rejected"}

\* C8: under fair scheduling, when every model stream yields a terminal event,
\* every tool execution settles and the model, the steering source and the
\* follow-up source eventually go quiet, the run ends: exactly one agent_end is
\* emitted, as the last event, and the stream is ended; and the inner loop takes
\* another pass exactly while the last turn had tool calls or messages are
\* pending.
C8_Termination ==
    /\ []EndedOnce
    /\ [][InnerLoopRule]_vars
    /\ []EnvironmentAnswers => <>(pc = "done")

\* a run of two model calls, kept going by a follow-up batch, ended normally
C8_Witness ==
    /\ pc = "done"
    /\ turns = 2
    /\ ~aborted
    /\ Last(newMessages).stopReason = "stop"
    /\ \E k \in 1..Len(polls) : polls[k].kind = "followUp" /\ polls[k].batch # <<>>

(***************************************************************************)
(* C9  agent_end carries the messages the run appended.                    *)
(***************************************************************************)
\* the messages of the message_end events, in order
EndedMessages ==
    LET ends == SelectSeq(events, LAMBDA e : e.type = "message_end")
    IN [i \in 1..Len(ends) |-> ends[i].ref]

\* C9: at agent_end the list the event carries, and the value result() resolves
\* with, is the sequence of messages the run appended to the working context,
\* in context order: the final context is the initial context followed by
\* newMessages, and newMessages holds every message the run announced.
C9_AgentEndCarriesNewMessages ==
    pc = "done" =>
        /\ Last(events) = Event("agent_end", newMessages)
        /\ streamResult = Resolved(newMessages)
        /\ context = initialMessages \o newMessages
        /\ EndedMessages = newMessages

\* a normal exit after a streamed response with a tool result and a steering
\* batch, on top of a caller's history
C9_Witness ==
    /\ pc = "done"
    /\ initialMessages # <<>>
    /\ Last(newMessages).stopReason = "stop"
    /\ CountType(events, "message_update") > 0
    /\ \E i \in 1..Len(newMessages) : newMessages[i].role = "toolResult"
    /\ \E i \in 1..Len(newMessages) :
         newMessages[i].role = "user" /\ newMessages[i].origin = "steer"

(***************************************************************************)
(* C10  Follow-up after steering.                                          *)
(***************************************************************************)
\* what C10 says of the follow-up poll polls[k]
FollowUpLast(k) ==
    LET P == polls[k]
        B == P.batch
    IN \* the most recent assistant message had no tool calls
       /\ P.turn >= 1
       /\ \E i \in 1..Len(newMessages) :
            newMessages[i].role = "assistant" /\ newMessages[i].turn = P.turn
       /\ AssistantOfTurn(P.turn).toolCalls = <<>>
       \* the steering poll after that turn returned nothing
       /\ config.steering =>
            /\ k > 1
            /\ polls[k - 1].kind = "steering"
            /\ polls[k - 1].where = "afterTurn"
            /\ polls[k - 1].turn = P.turn
            /\ ~polls[k - 1].threw
            /\ polls[k - 1].batch = <<>>
       \* a non-empty batch opens a new turn
       /\ (B # <<>> /\ turns = P.turn /\ pc # "crashed") =>
            pc = "turn" /\ pendingMessages = B /\ Len(events) = P.at
       /\ (B # <<>> /\ turns > P.turn) =>
            /\ Len(events) >= P.at + 1 + 2 * Len(B)
            /\ SubSeq(events, P.at + 1, P.at + 1 + 2 * Len(B))
                 = <<Event("turn_start", 0)>> \o MessagesEvents(B)
            /\ \E p \in 1..Len(context) :
                 /\ context[p] = AssistantOfTurn(P.turn)
                 /\ p + Len(B) <= Len(context)
                 /\ SubSeq(context, p + 1, p + Len(B)) = B
       \* an empty one ends the run
       /\ (B = <<>> /\ ~P.threw) =>
            /\ pc = "done"
            /\ k = Len(polls)
            /\ Len(events) = P.at + 1
            /\ Last(events).type = "agent_end"

\* C10: getFollowUpMessages is invoked only when the most recent assistant
\* message had no tool calls and the steering poll made after that turn returned
\* an empty batch; a non-empty follow-up batch is injected at the start of a new
\* turn, and an empty one ends the run.
C10_FollowUpAfterSteering ==
    \A k \in 1..Len(polls) : polls[k].kind = "followUp" => FollowUpLast(k)

\* a follow-up batch opened the second turn, and a second, empty follow-up poll
\* ended the run
C10_Witness ==
    /\ pc = "done"
    /\ \E k \in 1..Len(polls) :
         polls[k].kind = "followUp" /\ polls[k].batch # <<>> /\ polls[k].turn = 1
    /\ \E k \in 1..Len(polls) :
         polls[k].kind = "followUp" /\ polls[k].batch = <<>> /\ polls[k].turn = 2


(***************************************************************************)
(* C11  Tool failures are isolated to one call.                            *)
(***************************************************************************)
WasExecuted(call) == \E x \in 1..Len(executed) : executed[x] = call.id

\* the call names no registered tool / its arguments were checked and failed
Unregistered(call) == call.name \notin {"ls"}
FailsValidation(call) == ~Unregistered(call) /\ ajv /\ call.args = "invalid"

CountResults(id) ==
    Cardinality({i \in 1..Len(newMessages) :
        newMessages[i].role = "toolResult" /\ newMessages[i].toolCallId = id})

\* a steering batch arrived in the turn of m after one of the calls before k
SteeredBefore(m, k) ==
    \E x \in 1..Len(polls) :
        /\ SteeredAfterTool(polls[x])
        /\ polls[x].turn = m.turn
        /\ polls[x].index < k

\* the turn of m has ended with the results R
IsolatedAt(m, R) ==
    /\ Len(R) = Len(m.toolCalls)
    /\ \A k \in 1..Len(R) :
         LET call == m.toolCalls[k]
             r == R[k]
         IN /\ r.toolCallId = call.id
            /\ CountResults(call.id) = 1
            /\ CountEvent("tool_execution_start", call.id) = 1
            \* a call is skipped only on account of a steering batch, never
            \* because an earlier call failed
            /\ r.text = SkippedText <=> SteeredBefore(m, k)
            /\ ~SteeredBefore(m, k) =>
                 /\ Unregistered(call) => (r.isError /\ r.text = "Tool not found")
                 /\ FailsValidation(call) => (r.isError /\ r.text = "Validation failed")
                 /\ WasExecuted(call) <=> ~(Unregistered(call) \/ FailsValidation(call))
                 /\ WasExecuted(call) =>
                      \/ r.isError /\ r.text = "threw"
                      \/ ~r.isError /\ r.text = "output"
    \* after tool calls, failed or not, the run goes on to the next turn
    /\ (pc = "done" /\ Len(m.toolCalls) > 0) => turns > m.turn

\* C11: a call that names an unregistered tool or whose arguments fail
\* validation is never executed; it, and a call whose execute throws, yields
\* exactly one toolResult with isError and the error message as its text; the
\* other calls of the message are still processed, and the run proceeds to the
\* next turn.
C11_ToolFailuresIsolated ==
    /\ \A i \in 1..Len(newMessages) :
         newMessages[i].role = "assistant" =>
            \A k \in 1..Len(newMessages[i].toolCalls) :
               LET call == newMessages[i].toolCalls[k] IN
               (Unregistered(call) \/ FailsValidation(call)) => ~WasExecuted(call)
    /\ \A i \in 1..Len(events) :
         (events[i].type = "turn_end"
          /\ events[i].ref.message.stopReason \notin {"error", "aborted"}) =>
             IsolatedAt(events[i].ref.message, events[i].ref.toolResults)

\* an unknown tool, then arguments that fail validation, then the next turn
C11_Witness ==
    /\ pc = "done"
    /\ turns = 2
    /\ \E i \in 1..Len(events) :
         /\ events[i].type = "turn_end"
         /\ Len(events[i].ref.toolResults) = 2
         /\ events[i].ref.toolResults[1].text = "Tool not found"
         /\ events[i].ref.toolResults[2].text = "Validation failed"


(***************************************************************************)
(* C12  A terminal event ends the stream and is delivered last.            *)
(***************************************************************************)
IsPushStep == esCalls'.push = esCalls.push + 1
IsEndStep == esCalls'.end = esCalls.end + 1
IsNextStep(c) == esOp'.op = "next" /\ esOp'.consumer = c /\ esCalls' = esCalls

\* the events the stream accepted, in order: those handed out, then the queue
Accepted == [i \in 1..Len(delivered) |-> delivered[i].event] \o stream.queue

\* push of a terminal event on a stream that has not ended
TerminalPush ==
    (IsPushStep /\ ~stream.done /\ isComplete(esOp'.event)) =>
        LET e == esOp'.event IN
        /\ stream'.done
        /\ stream'.result = Resolved(extractResult(e))
        /\ IF stream.waiting # <<>>
           THEN /\ delivered' = Append(delivered, [to |-> Head(stream.waiting), event |-> e])
                /\ consumers'[Head(stream.waiting)].pc = "ready"
                /\ Last(consumers'[Head(stream.waiting)].got) = e
           ELSE stream'.queue = Append(stream.queue, e)

\* no event is accepted after a terminal one
TerminalIsLast ==
    \A i \in 1..Len(Accepted) : isComplete(Accepted[i]) => i = Len(Accepted)

\* the consumer that was handed the terminal event finishes at its next step
FinishesAfterTerminal ==
    \A c \in DOMAIN consumers :
        (/\ consumers[c].got # <<>>
         /\ isComplete(Last(consumers[c].got))
         /\ IsNextStep(c)) => consumers'[c].pc = "finished"

\* C12: push(e) of a terminal event on a stream that has not ended ends it,
\* resolves result() with extractResult(e), still hands e to a consumer, as the
\* last event, and that consumer's iteration then finishes, end() called or not.
C12_TerminalEvent ==
    /\ [][TerminalPush]_vars
    /\ []TerminalIsLast
    /\ [][FinishesAfterTerminal]_vars

\* a consumer got an event and then the terminal one and has finished, and end
\* was never called
C12_Witness ==
    /\ esCalls.end = 0
    /\ DOMAIN consumers = {1}
    /\ consumers[1].pc = "finished"
    /\ Len(consumers[1].got) = 2
    /\ isComplete(consumers[1].got[2])
    /\ stream.result = Resolved(consumers[1].got[2].ref)

(***************************************************************************)
(* C13  push after the end is a no-op.                                     *)
(***************************************************************************)
\* C13: once the stream has ended, a push neither enqueues nor delivers the
\* event, wakes no consumer and leaves the result as it is.
C13_PushAfterEnd ==
    [][(IsPushStep /\ stream.done) =>
          (stream' = stream /\ consumers' = consumers /\ delivered' = delivered)]_vars

\* a terminal event was pushed on a stream ended by end() without a result:
\* the result is still unresolved
C13_Witness ==
    /\ esOp.op = "push"
    /\ isComplete(esOp.event)
    /\ stream.done
    /\ ~stream.result.resolved
    /\ stream.queue = <<>>

(***************************************************************************)
(* C14  end.                                                               *)
(***************************************************************************)
Blocked(c) == consumers[c].pc = "blocked"

EndsAndReleases ==
    /\ stream'.done
    /\ stream'.waiting = <<>>
    /\ \A c \in DOMAIN consumers :
         /\ Blocked(c) => (consumers'[c].pc = "finished" /\ consumers'[c].got = consumers[c].got)
         /\ ~Blocked(c) => consumers'[c] = consumers[c]
    /\ stream'.queue = stream.queue
    /\ delivered' = delivered

\* C14 as stated: end(r) forces the stream to ended, resolves result() with r
\* when r is given, and releases every consumer blocked at that moment with
\* end-of-sequence.
C14_EndResolvesWithR ==
    [][IsEndStep =>
          /\ EndsAndReleases
          /\ esOp'.result.given => stream'.result = Resolved(esOp'.result.value)]_vars

\* C14 amended: end(r) forces the stream to ended and releases every consumer
\* blocked at that moment with end-of-sequence; when r is given and result()
\* has not settled yet it resolves with r, and a result that has settled (by a
\* terminal event or an earlier end) is kept.
C14_End ==
    [][IsEndStep =>
          /\ EndsAndReleases
          /\ esOp'.result.given =>
               stream'.result = (IF stream.result.resolved THEN stream.result
                                 ELSE Resolved(esOp'.result.value))
          /\ ~esOp'.result.given => stream'.result = stream.result]_vars

\* end(r) was called with two consumers blocked: both are finished, the result
\* is r
C14_Witness ==
    /\ esOp.op = "end"
    /\ esOp.result.given
    /\ stream.result = Resolved(esOp.result.value)
    /\ delivered = <<>>
    /\ DOMAIN consumers = {1, 2}
    /\ \A c \in {1, 2} : consumers[c].pc = "finished"
    /\ esCalls = [push |-> 0, end |-> 1]


\* ---------------------------------------------------------------------------
\* C15  Drop-errored: whatever the history and the target model, the list
\* returned by transformMessages holds no assistant message whose stopReason
\* is error or aborted.
Transformed == tPc \in {"done", "twice"}

HasErrored(messages) ==
    \E p \in 1..Len(messages) :
        /\ messages[p].role = "assistant"
        /\ messages[p].stopReason \in {"error", "aborted"}

C15_DropErrored == Transformed => ~HasErrored(tOut)

\* an aborted assistant message was in the history, and others were returned
C15_Witness ==
    /\ tPc = "done"
    /\ \E p \in 1..Len(tIn) : tIn[p].role = "assistant" /\ tIn[p].stopReason = "aborted"
    /\ \E p \in 1..Len(tOut) : tOut[p].role = "assistant"


\* ---------------------------------------------------------------------------
\* C16  Idempotence: for any history, target model and deterministic id
\* normalizer, transformMessages applied to its own output, for the same
\* model, returns that output again (same messages in the same order, with
\* the same content blocks and tool-call ids).
C16_Idempotence == tPc = "twice" => tOut2 = tOut

\* what does hold: the second application changes nothing when the normalizer
\* is absent or maps its own results to themselves
IdempotentNormalizer(normalize) ==
    normalize = "none"
    \/ \A id \in AllIds : normalizeToolCallId(normalize, normalizeToolCallId(normalize, id))
                            = normalizeToolCallId(normalize, id)

IdempotenceUnderIdempotentNormalizer ==
    (tPc = "twice" /\ IdempotentNormalizer(tNormalize)) => tOut2 = tOut


\* ---------------------------------------------------------------------------
\* C17  Pairing under id normalization: for every assistant message that is
\* returned (cross-model or same-model) and every toolResult that follows it
\* in the input and carries the id of one of its tool calls, the toolResult
\* in the output carries the id that this tool call has in the output.

\* both passes scan left to right and append only, so the message at input
\* position p, when it is returned, is the last message of the output for the
\* history cut after p
OutPos(p) == Len(transformMessages(SubSeq(tIn, 1, p), tModel, tNormalize))

PairedInOutput(i, j, k) ==
    LET oi == OutPos(i)
        oj == OutPos(j)
    IN /\ oi >= 1 /\ oi < oj /\ oj <= Len(tOut)
       /\ tOut[oi].role = "assistant"
       /\ tOut[oj].role = "toolResult"
       /\ k <= Len(TToolCalls(tOut[oi]))
       /\ tOut[oj].toolCallId = TToolCalls(tOut[oi])[k].id

\* the toolResult at j follows the returned assistant message at i and carries
\* the id of its k-th tool call
CarriesIdOf(i, j, k) ==
    /\ i < j
    /\ tIn[i].role = "assistant" /\ ~IsErrored(tIn[i])
    /\ tIn[j].role = "toolResult"
    /\ k <= Len(TToolCalls(tIn[i]))
    /\ TToolCalls(tIn[i])[k].id = tIn[j].toolCallId

C17_PairingPreserved ==
    Transformed =>
        \A i \in 1..Len(tIn), j \in 1..Len(tIn), k \in 1..2 :
            CarriesIdOf(i, j, k) => PairedInOutput(i, j, k)

\* what does hold: the pairing is kept in histories where no two assistant
\* messages use the same tool-call id
IdsDistinct ==
    \A i \in 1..Len(tIn), j \in 1..Len(tIn) :
        (i # j /\ tIn[i].role = "assistant" /\ tIn[j].role = "assistant")
        => \A a \in 1..Len(TToolCalls(tIn[i])), b \in 1..Len(TToolCalls(tIn[j])) :
               TToolCalls(tIn[i])[a].id # TToolCalls(tIn[j])[b].id

PairingWhenIdsDistinct ==
    (Transformed /\ IdsDistinct) =>
        \A i \in 1..Len(tIn), j \in 1..Len(tIn), k \in 1..2 :
            CarriesIdOf(i, j, k) => PairedInOutput(i, j, k)

\* a toolResult of a cross-model call was rewritten to the call's new id
PairingRewritten ==
    /\ tPc = "done" /\ IdsDistinct
    /\ \E i \in 1..Len(tIn), j \in 1..Len(tIn), k \in 1..2 :
           /\ CarriesIdOf(i, j, k)
           /\ OutPos(j) <= Len(tOut)
           /\ tOut[OutPos(j)].toolCallId # tIn[j].toolCallId


\* ---------------------------------------------------------------------------
\* C18  First-pass block mapping: every assistant content block is mapped as
\* the decision table says. A thinking block is kept if same-model with a
\* signature, else dropped if its text is empty, else kept if same-model, else
\* replaced by a text block holding the reasoning text; a text block is kept
\* if same-model and otherwise reduced to its text (never dropped, even when
\* empty); a toolCall keeps id and thoughtSignature if same-model, and
\* cross-model loses the thoughtSignature and gets the normalizer's id; user
\* messages pass through unchanged.
TableThinking(block, same) ==
    CASE same /\ block.sig # "" -> <<block>>
      [] ~(same /\ block.sig # "") /\ block.text \in {"", " "} -> <<>>
      [] ~(same /\ block.sig # "") /\ block.text \notin {"", " "} /\ same -> <<block>>
      [] OTHER -> <<[type |-> "text", text |-> block.text, sig |-> ""]>>

TableText(block, same) ==
    CASE same -> <<block>>
      [] OTHER -> <<[type |-> "text", text |-> block.text, sig |-> ""]>>

TableToolCall(block, same, normalize) ==
    CASE same -> <<block>>
      [] ~same /\ normalize = "none" ->
            <<[type |-> "toolCall", id |-> block.id, name |-> block.name, sig |-> ""]>>
      [] ~same /\ normalize = "sanitize" ->
            <<[type |-> "toolCall", id |-> NormalizeId(block.id), name |-> block.name,
               sig |-> ""]>>
      [] OTHER ->
            <<[type |-> "toolCall", id |-> DigestId(block.id), name |-> block.name,
               sig |-> ""]>>

TableBlock(block, same, normalize) ==
    CASE block.type = "thinking" -> TableThinking(block, same)
      [] block.type = "text" -> TableText(block, same)
      [] OTHER -> TableToolCall(block, same, normalize)

RECURSIVE TableContent(_, _, _)
TableContent(content, same, normalize) ==
    IF content = <<>> THEN <<>>
    ELSE TableBlock(Head(content), same, normalize)
         \o TableContent(Tail(content), same, normalize)

\* the message the table gives for an assistant message
TableMessage(msg, model, normalize) ==
    [msg EXCEPT !.content = TableContent(msg.content, msg.model = model, normalize)]

\* the list the first pass hands to the second one
FirstPassOf(messages) == FirstPass(messages, tModel, tNormalize, EmptyIdMap)

C18_FirstPassTable ==
    Transformed =>
        /\ Len(FirstPassOf(tIn)) = Len(tIn)
        /\ \A p \in 1..Len(tIn) :
               /\ tIn[p].role = "user" => FirstPassOf(tIn)[p] = tIn[p]
               /\ tIn[p].role = "assistant"
                  => FirstPassOf(tIn)[p] = TableMessage(tIn[p], tModel, tNormalize)
               \* and a message that is returned is returned as the table has it
               /\ (tIn[p].role = "user" /\ OutPos(p) \in 1..Len(tOut))
                  => tOut[OutPos(p)] = tIn[p]
               /\ (tIn[p].role = "assistant" /\ ~IsErrored(tIn[p])
                   /\ OutPos(p) \in 1..Len(tOut))
                  => tOut[OutPos(p)] = TableMessage(tIn[p], tModel, tNormalize)

\* the rows of the table that change or drop a block, and the empty text block
HasBlock(msg, type, texts, sigs) ==
    \E b \in 1..Len(msg.content) :
        /\ msg.content[b].type = type
        /\ msg.content[b].type # "toolCall" => msg.content[b].text \in texts
        /\ msg.content[b].sig \in sigs

C18_Witness ==
    /\ tPc = "done" /\ tNormalize = "sanitize" /\ Len(tIn) = MaxHistory
    /\ tIn[1].role = "assistant" /\ tIn[1].model = tModel
    /\ HasBlock(tIn[1], "thinking", {""}, {"sig"})
    /\ HasBlock(tIn[1], "text", {""}, {""})
    /\ tIn[2].role = "assistant" /\ tIn[2].model # tModel /\ ~IsErrored(tIn[2])
    /\ HasBlock(tIn[2], "thinking", {" "}, {""})
    /\ HasBlock(tIn[2], "thinking", {"hm"}, {""})
    /\ HasBlock(tIn[2], "toolCall", {}, {""})
    /\ tIn[3].role = "assistant" /\ tIn[3].model # tModel
    /\ HasBlock(tIn[3], "toolCall", {}, {"sig"})
    /\ \E p \in 1..Len(tOut) :
           /\ tOut[p].role = "assistant"
           /\ tOut[p].content = <<TextBlock("hm", ""), ToolCallBlock("b_", "ls", "")>>


\* ---------------------------------------------------------------------------
\* C19  Cut-point legality: for any entries, range [s, e) and keepRecentTokens,
\* firstKeptEntryIndex is either s or the index of a legal cut-point entry (a
\* message entry with role user, assistant, bashExecution, custom,
\* branchSummary or compactionSummary, or a branch_summary / custom_message
\* entry), never a toolResult and never a metadata entry.
Called(k) == k \in DOMAIN cuts /\ cuts[k] # NoCut
FirstKept(k) == cuts[k].firstKeptEntryIndex

LegalKind(sessionEntry) ==
    IF sessionEntry.type = "message"
    THEN sessionEntry.role \in {"user", "assistant", "bashExecution", "custom",
                                "branchSummary", "compactionSummary"}
    ELSE sessionEntry.type \in {"branch_summary", "custom_message"}

InRange(i) == boundaryStart <= i /\ i < boundaryEnd

C19_CutPointLegal ==
    \A k \in 1..MaxKeep :
        Called(k) =>
            \/ FirstKept(k) = boundaryStart
            \/ InRange(FirstKept(k)) /\ LegalKind(EntryAt(pathEntries, FirstKept(k)))

\* amended: the index may also be that of a metadata entry from which only
\* metadata entries lead up to a legal cut-point entry of the range; apart
\* from s it is never a toolResult and never a compaction entry
Metadata(sessionEntry) == sessionEntry.type \notin {"message", "compaction"}

LeadsToCutPoint(i) ==
    \E c \in (i + 1)..(boundaryEnd - 1) :
        /\ LegalKind(EntryAt(pathEntries, c))
        /\ \A m \in i..(c - 1) : Metadata(EntryAt(pathEntries, m))

C19_CutPointLegalOrMetadata ==
    \A k \in 1..MaxKeep :
        Called(k) =>
            \/ FirstKept(k) = boundaryStart
            \/ /\ InRange(FirstKept(k))
               /\ \/ LegalKind(EntryAt(pathEntries, FirstKept(k)))
                  \/ LeadsToCutPoint(FirstKept(k))

\* a cut that was moved from an assistant message onto the label before it,
\* and for a larger budget fell on the user message that starts the range
C19_Witness ==
    /\ Len(pathEntries) = MaxEntries /\ boundaryStart = 0 /\ boundaryEnd = MaxEntries
    /\ EntryAt(pathEntries, 0).role = "user"
    /\ EntryAt(pathEntries, 1).type = "label"
    /\ EntryAt(pathEntries, 2).role = "assistant"
    /\ Called(1) /\ FirstKept(1) = 1
    /\ Called(MaxKeep) /\ FirstKept(MaxKeep) = 0

\* ---------------------------------------------------------------------------
\* C20  Keep-recent monotonicity: for fixed entries and range, if k1 <= k2
\* then the tail kept with keepRecentTokens = k2 holds at least as many
\* entries as with k1: firstKeptEntryIndex(k2) <= firstKeptEntryIndex(k1).
C20_KeepRecentMonotone ==
    \A k1 \in 1..MaxKeep, k2 \in 1..MaxKeep :
        (k1 <= k2 /\ Called(k1) /\ Called(k2)) => FirstKept(k2) <= FirstKept(k1)

\* what does hold: monotone whenever the newest message entry of the range is
\* a valid cut point
NewestMessageIsCutPoint ==
    \A i \in boundaryStart..(boundaryEnd - 1) :
        (/\ EntryAt(pathEntries, i).type = "message"
         /\ \A j \in (i + 1)..(boundaryEnd - 1) : EntryAt(pathEntries, j).type # "message")
        => LegalKind(EntryAt(pathEntries, i))

MonotoneWhenNewestIsCutPoint ==
    NewestMessageIsCutPoint => C20_KeepRecentMonotone

MonotoneCase ==
    /\ NewestMessageIsCutPoint
    /\ Called(1) /\ Called(MaxKeep) /\ FirstKept(MaxKeep) < FirstKept(1)


\* ---------------------------------------------------------------------------
\* C21  Keep-recent minimum: whenever the message entries of [startIndex,
\* endIndex) total at least keepRecentTokens estimated tokens, the tail
\* [firstKeptEntryIndex, endIndex) holds at least keepRecentTokens estimated
\* tokens, and the cut is the smallest valid cut point at or after the index
\* where the backward running total first reaches keepRecentTokens.
RECURSIVE TokensFrom(_)
TokensFrom(i) ==
    IF i >= boundaryEnd THEN 0
    ELSE (IF EntryAt(pathEntries, i).type = "message"
          THEN EntryAt(pathEntries, i).tokens ELSE 0) + TokensFrom(i + 1)

Reaches(k) == InRange(boundaryStart) /\ TokensFrom(boundaryStart) >= k

\* the index where the running total, taken from the newest entry back, first
\* reaches k
ReachIndex(k) ==
    CHOOSE i \in boundaryStart..(boundaryEnd - 1) :
        TokensFrom(i) >= k /\ TokensFrom(i + 1) < k

CutPointsFrom(i) == {c \in i..(boundaryEnd - 1) : LegalKind(EntryAt(pathEntries, c))}

\* c, or the first of the metadata entries that directly precede it
IsCutAt(first, c) ==
    /\ first <= c
    /\ \A m \in first..(c - 1) : Metadata(EntryAt(pathEntries, m))
    /\ first > boundaryStart
       => EntryAt(pathEntries, first - 1).type \in {"message", "compaction"}

SmallestCutPointFrom(i) ==
    CHOOSE c \in CutPointsFrom(i) : \A d \in CutPointsFrom(i) : c <= d

CutIsSmallestAtOrAfter(k) ==
    CutPointsFrom(ReachIndex(k)) # {}
    => IsCutAt(FirstKept(k), SmallestCutPointFrom(ReachIndex(k)))

C21_KeepRecentMinimum ==
    \A k \in 1..MaxKeep :
        (Called(k) /\ Reaches(k)) =>
            /\ TokensFrom(FirstKept(k)) >= k
            /\ CutIsSmallestAtOrAfter(k)

\* what does hold: the cut is chosen as said whenever a valid cut point lies
\* at or after the index reached, and the tail holds the budget when that
\* index is itself a valid cut point
CutChosenAtOrAfter ==
    \A k \in 1..MaxKeep : (Called(k) /\ Reaches(k)) => CutIsSmallestAtOrAfter(k)

MinimumWhenReachedAtCutPoint ==
    \A k \in 1..MaxKeep :
        (Called(k) /\ Reaches(k) /\ LegalKind(EntryAt(pathEntries, ReachIndex(k))))
        => TokensFrom(FirstKept(k)) >= k

MinimumCase ==
    /\ Called(MaxKeep) /\ Reaches(MaxKeep)
    /\ LegalKind(EntryAt(pathEntries, ReachIndex(MaxKeep)))
    /\ FirstKept(MaxKeep) > boundaryStart


\* ---------------------------------------------------------------------------
\* C22  Split-turn determination: if the entry at firstKeptEntryIndex is a user
\* message then isSplitTurn = false and turnStartIndex = -1; otherwise
\* turnStartIndex is the nearest turn-opening entry preceding the cut within
\* the boundary and isSplitTurn = true, so whenever isSplitTurn is true,
\* startIndex <= turnStartIndex < firstKeptEntryIndex and the turn prefix
\* [turnStartIndex, firstKeptEntryIndex) is non-empty and starts at a
\* turn-opening message.
IsUserMessage(sessionEntry) == sessionEntry.type = "message" /\ sessionEntry.role = "user"

\* user and bashExecution messages, and the user-role entries
TurnOpening(sessionEntry) ==
    \/ sessionEntry.type = "message" /\ sessionEntry.role \in {"user", "bashExecution"}
    \/ sessionEntry.type \in {"branch_summary", "custom_message"}

OpeningsBefore(first) ==
    {t \in boundaryStart..(first - 1) : TurnOpening(EntryAt(pathEntries, t))}

SplitAsClaimed(cut) ==
    IF IsUserMessage(EntryAt(pathEntries, cut.firstKeptEntryIndex))
    THEN ~cut.isSplitTurn /\ cut.turnStartIndex = -1
    ELSE /\ OpeningsBefore(cut.firstKeptEntryIndex) # {}
            => /\ cut.isSplitTurn
               /\ cut.turnStartIndex \in OpeningsBefore(cut.firstKeptEntryIndex)
               /\ \A t \in OpeningsBefore(cut.firstKeptEntryIndex) : t <= cut.turnStartIndex
         /\ cut.isSplitTurn
            => /\ boundaryStart <= cut.turnStartIndex
               /\ cut.turnStartIndex < cut.firstKeptEntryIndex
               /\ TurnOpening(EntryAt(pathEntries, cut.turnStartIndex))

C22_SplitTurn ==
    \A k \in 1..MaxKeep :
        (Called(k) /\ InRange(FirstKept(k))) => SplitAsClaimed(cuts[k])

\* what does hold: the same, for cuts that do not fall on a bashExecution
\* message or a user-role entry
SplitTurnUnlessCutOpens ==
    \A k \in 1..MaxKeep :
        (/\ Called(k) /\ InRange(FirstKept(k))
         /\ (TurnOpening(EntryAt(pathEntries, FirstKept(k)))
             => IsUserMessage(EntryAt(pathEntries, FirstKept(k)))))
        => SplitAsClaimed(cuts[k])

SplitCase ==
    \E k \in 1..MaxKeep :
        /\ Called(k) /\ cuts[k].isSplitTurn
        /\ cuts[k].turnStartIndex < FirstKept(k) - 1
        /\ EntryAt(pathEntries, FirstKept(k)).role = "assistant"


\* ---------------------------------------------------------------------------
\* C23  prepareCompaction partitions the boundary range: the index ranges
\* behind messagesToSummarize ([boundaryStart, historyEnd)), turnPrefixMessages
\* ([turnStartIndex, firstKeptEntryIndex), only when splitting) and the kept
\* tail ([firstKeptEntryIndex, boundaryEnd)) are pairwise disjoint, contiguous
\* and together cover [boundaryStart, boundaryEnd): no entry after the
\* previous compaction is both summarized and kept, or neither.
Prepared == preparation.state = "prepared"

Elements(seq) == {seq[n] : n \in 1..Len(seq)}

IsSummarized(i) == i \in Elements(preparation.messagesToSummarize)
IsTurnPrefix(i) == i \in Elements(preparation.turnPrefixMessages)
IsKept(i) == preparation.cutPoint.firstKeptEntryIndex <= i /\ i < preparation.boundaryEnd

ExactlyOne(a, b, c) == (a /\ ~b /\ ~c) \/ (~a /\ b /\ ~c) \/ (~a /\ ~b /\ c)

C23_Partition ==
    Prepared =>
        LET first == preparation.cutPoint.firstKeptEntryIndex
            turnStart == preparation.cutPoint.turnStartIndex
        IN \* the three ranges follow one another from boundaryStart to boundaryEnd
           /\ preparation.boundaryStart <= preparation.historyEnd
           /\ preparation.historyEnd <= first
           /\ first <= preparation.boundaryEnd
           /\ preparation.historyEnd = (IF preparation.isSplitTurn THEN turnStart ELSE first)
           \* the lists hold the messages of their ranges and of nothing else
           /\ \A i \in Elements(preparation.messagesToSummarize) :
                  preparation.boundaryStart <= i /\ i < preparation.historyEnd
           /\ \A i \in Elements(preparation.turnPrefixMessages) :
                  preparation.isSplitTurn /\ turnStart <= i /\ i < first
           \* every entry of the boundary that gives a message is in exactly one part
           /\ \A i \in preparation.boundaryStart..(preparation.boundaryEnd - 1) :
                  getMessageFromEntry(EntryAt(pathEntries, i))
                  => ExactlyOne(IsSummarized(i), IsTurnPrefix(i), IsKept(i))

\* a split turn: all three parts hold a message
C23_Witness ==
    /\ Prepared /\ preparation.isSplitTurn
    /\ preparation.messagesToSummarize # <<>>
    /\ preparation.turnPrefixMessages # <<>>
    /\ preparation.cutPoint.firstKeptEntryIndex < preparation.boundaryEnd


\* ---------------------------------------------------------------------------
\* C24  When compact splits a turn, the history summarization and the turn
\* prefix summarization are started concurrently, and for every order in
\* which the two calls complete the emitted summary is the history summary,
\* then the separator, then the turn-prefix summary.
Splitting ==
    Prepared /\ preparation.isSplitTurn /\ Len(preparation.turnPrefixMessages) > 0

\* no call has settled yet: both are under way (the history one is answered
\* at once when there is nothing to summarize)
BothStarted ==
    (compaction.state = "running" /\ summaries.order = <<>>)
    => /\ summaries.prefix.state = "pending"
       /\ summaries.history = (IF Len(preparation.messagesToSummarize) > 0
                               THEN Pending ELSE Fulfilled(NoPriorHistory))

HistoryFirst ==
    compaction.state = "returned"
    => /\ Len(compaction.summary) >= 3
       /\ compaction.summary[1] \in {HistoryText, NoPriorHistory}
       /\ compaction.summary[1] = summaries.history.text
       /\ compaction.summary[2] = Separator
       /\ compaction.summary[3] = TurnPrefixText
       /\ compaction.summary = SubSeq(compaction.summary, 1, 3) \o preparation.fileOps

C24_SplitSummaryOrder == Splitting => (BothStarted /\ HistoryFirst)

\* the turn-prefix call completed before the history call
C24_Witness ==
    /\ Splitting
    /\ compaction.state = "returned"
    /\ summaries.order = <<"prefix", "history">>


\* ---------------------------------------------------------------------------
\* C25  Summarization failure: if a summarization call made by compact
\* (history or turn prefix) returns stopReason = error, compact fails with an
\* error and returns no CompactionResult: no partial or one-sided summary is
\* produced, and no call is made a second time.
SummarizationFailed ==
    summaries.history.state = "rejected" \/ summaries.prefix.state = "rejected"

SettledOnce(call) ==
    \A m \in 1..Len(summaries.order), n \in 1..Len(summaries.order) :
        (summaries.order[m] = call /\ summaries.order[n] = call) => m = n

C25_SummarizationFailure ==
    /\ SummarizationFailed => compaction.state \in {"running", "threw"}
    /\ compaction.state = "threw" => SummarizationFailed
    /\ SettledOnce("history") /\ SettledOnce("prefix")

\* the history summary was there when the turn-prefix call failed
C25_Witness ==
    /\ compaction.state = "threw"
    /\ summaries.history = Fulfilled(HistoryText)
    /\ summaries.prefix.state = "rejected"

(***************************************************************************)
(* C26: for a conformant proxy event sequence (start, per index start /    *)
(* deltas / end, done) the message delivered with the done event has, at   *)
(* each content index, a block of the announced type whose text or         *)
(* thinking is that block's deltas in order (for a tool call the announced *)
(* id and name, its arguments parsed from the deltas), nothing at an index *)
(* that was not announced, and the stopReason and usage of the done event. *)
(***************************************************************************)
Rebuilt(sentBlock, i, built) ==
    CASE sentBlock.state = "none" -> built = Hole
      [] sentBlock.type = "text" ->
             built.type = "text" /\ built.text = sentBlock.deltas
      [] sentBlock.type = "thinking" ->
             built.type = "thinking" /\ built.thinking = sentBlock.deltas
      [] OTHER ->
             /\ built.type = "toolCall"
             /\ built.id = ToolCallIdAt(i)
             /\ built.name = "ls"
             /\ built.arguments = parseStreamingJson(sentBlock.deltas)

ConformantDone == proxy.pc # "unused" /\ sent.phase = "done" /\ proxyStream.resolved

C26_CodecRoundTrip ==
    ConformantDone =>
        /\ \A i \in ContentIndices :
               Rebuilt(sent.blocks[i], i, proxyStream.final.content[i])
        /\ proxyStream.final.stopReason = sent.reason
        /\ proxyStream.final.usage = sent.usage

\* a text put together from two different deltas, followed by done
C26_Witness ==
    /\ ConformantDone
    /\ sent.blocks[0].type = "text"
    /\ sent.blocks[0].deltas = <<"b", "a">>
    /\ sent.reason = "toolUse"

(***************************************************************************)
(* C27: once the stream has delivered done or error and result() has       *)
(* resolved, the content, stopReason, usage and errorMessage of the final  *)
(* message are what they were at the terminal event.                       *)
(***************************************************************************)
FrozenFields(m) == <<m.content, m.stopReason, m.usage, m.errorMessage>>

C27_FinalFrozen ==
    (proxy.pc # "unused" /\ proxyStream.resolved) =>
        FrozenFields(ResultMessage) = FrozenFields(proxyStream.final)

(***************************************************************************)
(* C28: the messages array of the context object the caller passed is      *)
(* never appended to nor has an entry replaced during a run, whichever     *)
(* entry point started it.                                                 *)
(***************************************************************************)
C28_CallerListUntouched ==
    pc # "unused" => CallerMessages = initialMessages

(***************************************************************************)
(* C29: agentLoopContinue called on a context with no messages, or whose   *)
(* last message is an assistant message, throws at once: no stream, no     *)
(* event, no model call.  Otherwise the run's events begin with            *)
(* agent_start, turn_start, and no message_start / message_end is ever     *)
(* emitted for a message that was already in the context.                  *)
(***************************************************************************)
ContractViolated ==
    IF initialMessages = <<>> THEN TRUE
    ELSE initialMessages[Len(initialMessages)].role = "assistant"

AlreadyInContext(m) == \E i \in 1..Len(initialMessages) : initialMessages[i] = m

C29_ContinueRejects ==
    entry = "agentLoopContinue" =>
        IF ContractViolated
        THEN /\ pc = "rejected"
             /\ events = <<>>
             /\ ~streamDone
             /\ streamResult = Unresolved
             /\ turns = 0
             /\ polls = <<>>
        ELSE /\ pc # "rejected"
             /\ Len(events) >= 2
             /\ events[1] = Event("agent_start", 0)
             /\ events[2] = Event("turn_start", 0)
             /\ \A i \in 1..Len(events) :
                    events[i].type \in {"message_start", "message_end"}
                        => ~AlreadyInContext(events[i].ref)

\* a rejected call on a context ending in an assistant message
C29_Witness ==
    /\ entry = "agentLoopContinue"
    /\ pc = "rejected"
    /\ initialMessages # <<>>
    /\ initialMessages[Len(initialMessages)].role = "assistant"

\* an accepted call whose run went on to emit message events
C29_WitnessAccepted ==
    /\ entry = "agentLoopContinue"
    /\ pc = "done"
    /\ \E i \in 1..Len(events) : events[i].type = "message_end"

(***************************************************************************)
(* C30: for a message of any role estimateTokens returns the number of     *)
(* characters of its textual fields divided by 4, rounded up, plus 1,200   *)
(* for each image block in it, image blocks of user messages included.     *)
(***************************************************************************)
RECURSIVE TextualChars(_)
TextualChars(blocks) ==
    IF blocks = <<>> THEN 0
    ELSE (IF Head(blocks).type # "image" THEN Head(blocks).chars ELSE 0)
         + TextualChars(Tail(blocks))

ImagesIn(m) == Len(SelectSeq(m.content.blocks, LAMBDA b : b.type = "image"))

ClaimedTokens(m) ==
    CeilQuarter(IF m.content.kind = "string" THEN m.content.length
                ELSE TextualChars(m.content.blocks))
    + 1200 * ImagesIn(m)

KnownRole(m) ==
    m.role \in {"user", "assistant", "toolResult", "custom", "bashExecution",
                "branchSummary", "compactionSummary"}

C30_EstimateTokens ==
    \A i \in 1..Len(estimates) :
        KnownRole(estimates[i].message)
            => estimates[i].tokens = ClaimedTokens(estimates[i].message)

\* what does hold: the formula for every message but a user message with images
EstimateExceptUserImages ==
    \A i \in 1..Len(estimates) :
        LET m == estimates[i].message
        IN (KnownRole(m) /\ ~(m.role = "user" /\ ImagesIn(m) > 0))
               => estimates[i].tokens = ClaimedTokens(m)

\* a tool result with text and two images was estimated
EstimateCase ==
    \E i \in 1..Len(estimates) :
        /\ estimates[i].message.role = "toolResult"
        /\ ImagesIn(estimates[i].message) = 2
        /\ estimates[i].tokens = 2402

(***************************************************************************)
(* C31: for each assistant response exactly one message_start and exactly  *)
(* one message_end are emitted, message_start first, and the working       *)
(* context grows by exactly one entry: the partial pushed at start and     *)
(* replaced in place by every later partial, then by the finalized         *)
(* message; without a start the finalized message is pushed at the         *)
(* terminal event.                                                         *)
(***************************************************************************)
IsResponseEvent(e, type, t) ==
    /\ e.type = type
    /\ e.ref.role = "assistant"
    /\ e.ref.turn = t

EventsOfResponse(type, t) ==
    {i \in 1..Len(events) : IsResponseEvent(events[i], type, t)}

EntriesOfResponse(t) ==
    {i \in 1..Len(context) : context[i].role = "assistant" /\ context[i].turn = t}

\* the response of model call t has been consumed to its terminal event
ResponseOver(t) == t < turns \/ (t = turns /\ pc \notin {"streaming", "hung"})

C31_OneMessagePerResponse ==
    \A t \in 1..turns :
        LET starts == EventsOfResponse("message_start", t)
            ends == EventsOfResponse("message_end", t)
            entries == EntriesOfResponse(t)
        IN /\ Cardinality(starts) <= 1
           /\ Cardinality(ends) <= 1
           /\ Cardinality(entries) <= 1
           \* the entry is there from message_start on
           /\ Cardinality(entries) = Cardinality(starts)
           /\ ResponseOver(t) <=> ends # {}
           /\ ends # {} =>
                 /\ starts # {}
                 /\ \A i \in starts, j \in ends : i < j
                 /\ \A k \in entries, j \in ends : context[k] = events[j].ref
           \* while streaming the one entry is the last one, the current partial
           /\ (t = turns /\ pc = "streaming" /\ response.addedPartial) =>
                 /\ entries = {Len(context)}
                 /\ context[Len(context)] = response.partialMessage
           /\ (t = turns /\ pc = "streaming" /\ ~response.addedPartial) => entries = {}

\* a response that came with start and a delta, finished by done
C31_Witness ==
    /\ turns >= 1
    /\ ResponseOver(1)
    /\ \E i \in 1..Len(events) :
           events[i].type = "message_update" /\ events[i].ref.turn = 1
    /\ \E j \in EventsOfResponse("message_end", 1) : events[j].ref.stopReason = "stop"

\* a response that ended with an error and no start
C31_WitnessNoStart ==
    /\ turns >= 1
    /\ ResponseOver(1)
    /\ \E i \in EventsOfResponse("message_start", 1) :
           events[i].ref.final /\ events[i].ref.stopReason = "error"

(***************************************************************************)
(* C32: whenever the preparation carries a previousSummary, compact hands  *)
(* it to the history summarizer, which then works from the update prompt,  *)
(* on every path: split turn or not, whatever the number of                *)
(* messagesToSummarize.                                                    *)
(***************************************************************************)
CompactStarted == preparation.state = "prepared" /\ compaction.state # "none"

C32_PreviousSummaryPassed ==
    (CompactStarted /\ preparation.previousSummary) => summaries.prompt = "update"

\* what does hold: it is passed whenever the history summarizer is called
PreviousSummaryPassedWhenCalled ==
    (CompactStarted /\ summaries.prompt # "none") =>
        summaries.prompt = BasePrompt(preparation.previousSummary)

\* a split turn after a previous compaction, with history to summarize
PreviousSummaryCase ==
    /\ CompactStarted
    /\ preparation.previousSummary
    /\ summaries.prompt = "update"
    /\ compaction.state = "returned"

(***************************************************************************)
(* C33: when the signal is aborted while streamProxy is fetching or        *)
(* reading and no terminal event was delivered yet, the stream delivers a  *)
(* terminal error event with reason aborted whose message has stopReason   *)
(* aborted, result() resolves with that message and the stream ends; a     *)
(* failure with the signal not aborted gives reason error.  Stated for the *)
(* runs in which streamProxy has left its read loop.                       *)
(***************************************************************************)
DeliveredError(reason) ==
    /\ proxyStream.done
    /\ proxyStream.resolved
    /\ proxyStream.terminal = [type |-> "error", reason |-> reason]
    /\ proxyStream.final.stopReason = reason
    /\ ResultMessage.stopReason = reason

C33_AbortYieldsAborted ==
    (proxy.pc = "ended") =>
        /\ (proxy.aborted /\ proxy.abortedInTime) => DeliveredError("aborted")
        /\ (proxy.failed /\ ~proxy.aborted) => DeliveredError("error")

\* aborted while reading, after some events had been delivered
C33_Witness ==
    /\ proxy.pc = "ended"
    /\ proxy.aborted
    /\ proxy.abortedInTime
    /\ proxy.lines >= 2
    /\ proxyPartial.content[0].type = "text"

(***************************************************************************)
(* C34: with one consumer, what the consumer has received followed by what *)
(* is still buffered is at every moment the sequence of the pushes made    *)
(* before the stream ended, in push order: an accepted push adds its event *)
(* at the end, a push after the end adds nothing, end() and the consumer's *)
(* steps lose and add nothing, the consumer takes the oldest buffered      *)
(* event, and it reaches end-of-sequence only with the buffer empty.       *)
(***************************************************************************)
OneConsumer == esOp.op # "unused" /\ DOMAIN consumers = {1}
Received == consumers[1].got
Outstanding == stream.queue
ReceivedOrOutstanding == Received \o Outstanding

FifoStep ==
    OneConsumer =>
        /\ (IsPushStep /\ ~stream.done) =>
               ReceivedOrOutstanding' = Append(ReceivedOrOutstanding, esOp'.event)
        /\ (IsPushStep /\ stream.done) => ReceivedOrOutstanding' = ReceivedOrOutstanding
        /\ IsEndStep => (Received' = Received /\ Outstanding' = Outstanding)
        /\ IsNextStep(1) =>
               /\ ReceivedOrOutstanding' = ReceivedOrOutstanding
               /\ Outstanding # <<>> => Received' = Append(Received, Head(Outstanding))
               /\ Outstanding = <<>> => Received' = Received
        /\ (consumers'[1].pc = "finished") => Outstanding' = <<>>

C34_FifoDelivery == [][FifoStep]_vars

\* the consumer finished after end() was called with two events in the buffer
\* and one received before
C34_Witness ==
    /\ OneConsumer
    /\ esCalls.end >= 1
    /\ esCalls.push = 3
    /\ consumers[1].pc = "finished"
    /\ Len(Received) = 3
    /\ \A i \in 1..3 : ~isComplete(Received[i])
    /\ Received[1] # Received[2]

\* end() was just called with two events buffered
EndWithBuffered ==
    /\ OneConsumer
    /\ esOp.op = "end"
    /\ Len(Outstanding) = 2

(***************************************************************************)
(* C35: every non-empty batch a steering or follow-up poll returned is     *)
(* appended to the context and to newMessages exactly once, its messages   *)
(* in batch order and next to each other, before the next assistant        *)
(* response is requested, and not before the poll.                         *)
(***************************************************************************)
Occurrences(ms, m) == Cardinality({i \in 1..Len(ms) : ms[i] = m})

\* the batch stands in ms once, as one block in batch order, and if a later
\* entry follows the block at once it is the response of model call t
InjectedOnce(ms, batch, t) ==
    /\ \A j \in 1..Len(batch) : Occurrences(ms, batch[j]) = 1
    /\ \E i \in 1..Len(ms) :
           /\ i + Len(batch) - 1 <= Len(ms)
           /\ \A j \in 1..Len(batch) : ms[i + j - 1] = batch[j]
           /\ (i + Len(batch) <= Len(ms)) =>
                  /\ ms[i + Len(batch)].role = "assistant"
                  /\ ms[i + Len(batch)].turn = t

NotInjected(ms, batch) == \A j \in 1..Len(batch) : Occurrences(ms, batch[j]) = 0

Returned(k) == ~polls[k].threw /\ polls[k].batch # <<>>

C35_BatchInjectedOnce ==
    \A k \in 1..Len(polls) :
        Returned(k) =>
            IF turns > polls[k].turn
            THEN /\ InjectedOnce(context, polls[k].batch, polls[k].turn + 1)
                 /\ InjectedOnce(newMessages, polls[k].batch, polls[k].turn + 1)
            ELSE \/ /\ NotInjected(context, polls[k].batch)
                    /\ NotInjected(newMessages, polls[k].batch)
                 \* injected, and the callbacks run before the model call threw
                 \/ /\ pc = "crashed"
                    /\ InjectedOnce(context, polls[k].batch, polls[k].turn + 1)
                    /\ InjectedOnce(newMessages, polls[k].batch, polls[k].turn + 1)

\* a steering batch taken at loop entry and one taken after a tool call, both
\* in the context of a finished run
C35_Witness ==
    /\ pc = "done"
    /\ \E k \in 1..Len(polls) :
           Returned(k) /\ polls[k].where = "entry" /\ turns > polls[k].turn
    /\ \E k \in 1..Len(polls) :
           Returned(k) /\ polls[k].where = "afterTool" /\ turns > polls[k].turn

\* a follow-up batch in the context of a finished run
C35_WitnessFollowUp ==
    /\ pc = "done"
    /\ \E k \in 1..Len(polls) :
           Returned(k) /\ polls[k].kind = "followUp" /\ turns > polls[k].turn

\* a steering batch taken after a turn in the context of a finished run
C35_WitnessAfterTurn ==
    /\ pc = "done"
    /\ \E k \in 1..Len(polls) :
           Returned(k) /\ polls[k].where = "afterTurn" /\ turns > polls[k].turn

(***************************************************************************)
(* C36: the tool calls of one assistant message are run one after the      *)
(* other in content order: when tool_execution_start of call j + 1 is      *)
(* emitted (and execute is invoked for it), tool_execution_end of call j   *)
(* and the message_start / message_end of its toolResult have been         *)
(* emitted, and the steering poll made after call j has returned.          *)
(***************************************************************************)
PositionsOfToolEvent(type, id) ==
    {i \in 1..Len(events) : events[i].type = type /\ events[i].ref = id}

PositionsOfResultEvent(type, id) ==
    {i \in 1..Len(events) :
        /\ events[i].type = type
        /\ events[i].ref.role = "toolResult"
        /\ events[i].ref.toolCallId = id}

\* the steering polls made after the call numbered j of model call t
PollsAfterCall(t, j) ==
    {k \in 1..Len(polls) :
        polls[k].where = "afterTool" /\ polls[k].turn = t /\ polls[k].index = j}

WasSkipped(id) ==
    \E i \in PositionsOfResultEvent("message_end", id) : events[i].ref.text = SkippedText

\* call j of the message m was finished before call j + 1 was started
SequentialAt(m, j) ==
    LET this == m.toolCalls[j].id
        following == m.toolCalls[j + 1].id
    IN \A s \in PositionsOfToolEvent("tool_execution_start", following) :
          /\ \E e \in PositionsOfToolEvent("tool_execution_end", this) : e < s
          /\ \E e \in PositionsOfResultEvent("message_start", this) : e < s
          /\ \E e \in PositionsOfResultEvent("message_end", this) : e < s
          /\ (config.steering /\ ~WasSkipped(this)) =>
                 \E k \in PollsAfterCall(m.turn, j) :
                    /\ ~polls[k].threw
                    /\ polls[k].at < s
                    /\ \A e \in PositionsOfResultEvent("message_end", this) : e <= polls[k].at

\* execute was invoked in content order, each call at most once
ExecutedInOrder ==
    \A a, b \in 1..Len(executed) : a < b => executed[a] < executed[b]

C36_SequentialTools ==
    /\ ExecutedInOrder
    /\ \A n \in 1..Len(newMessages) :
          newMessages[n].role = "assistant" =>
              \A j \in 1..(Len(newMessages[n].toolCalls) - 1) :
                  SequentialAt(newMessages[n], j)

\* two calls of one message were both executed, with a steering poll between
C36_Witness ==
    /\ config.steering
    /\ Len(executed) = 2
    /\ executed[2] = executed[1] + 1
    /\ PollsAfterCall(1, 1) # {}
    /\ PositionsOfToolEvent("tool_execution_update", executed[1]) # {}

(***************************************************************************)
(* C37: once the response body has ended - normally, by a failure or by    *)
(* abort - the stream streamProxy returned is ended and result() is        *)
(* resolved with a final assistant message, whatever the server sent.      *)
(***************************************************************************)
C37_ResultResolved ==
    (proxy.pc = "ended") => (proxyStream.done /\ proxyStream.resolved)

\* what does hold: the stream is ended, and the result is left unresolved
\* only when the body closed, unaborted, with no done or error line
UnresolvedOnlyOnSilentBody ==
    (proxy.pc = "ended") =>
        /\ proxyStream.done
        /\ ~proxyStream.resolved =>
               (~proxy.failed /\ ~proxy.aborted /\ proxyStream.terminal.type = "none")

\* the body closed after a start line and a text block, with no terminal line
SilentBodyCase ==
    /\ proxy.pc = "ended"
    /\ ~proxyStream.resolved
    /\ proxy.lines >= 3
    /\ proxyPartial.content[0].type = "text"

(***************************************************************************)
(* C38: on a path that holds a compaction entry, appended after the        *)
(* entries it kept, every entry with a message from that compaction's      *)
(* firstKeptEntryId onward is, in the next preparation, among              *)
(* messagesToSummarize, among turnPrefixMessages or in the kept tail.      *)
(* prepareCompaction does not read the firstKeptEntryId of the compaction  *)
(* entry; the formula is stated for whichever earlier entry it names.      *)
(***************************************************************************)
LatestCompaction == PrevCompactionIndex(pathEntries, Len(pathEntries) - 1)

BearsMessage(i) ==
    EntryAt(pathEntries, i).type \in {"message", "custom_message", "branch_summary"}

Accounted(i) == IsSummarized(i) \/ IsTurnPrefix(i) \/ IsKept(i)

C38_NoMessageLost ==
    (Prepared /\ LatestCompaction >= 1) =>
        \A firstKept \in 0..(LatestCompaction - 1) :
            \A i \in firstKept..(Len(pathEntries) - 1) :
                BearsMessage(i) => Accounted(i)

\* what does hold: nothing is lost of what follows the compaction entry
NoMessageLostAfterCompaction ==
    (Prepared /\ LatestCompaction >= 0) =>
        \A i \in (LatestCompaction + 1)..(Len(pathEntries) - 1) :
            BearsMessage(i) => Accounted(i)

\* a preparation on a path with a compaction entry in its middle
AfterCompactionCase ==
    /\ Prepared
    /\ LatestCompaction = 1
    /\ BearsMessage(2)

\* ---------------------------------------------------------------------------
\* C39: the second pass of transformMessages adds a "No result provided"
\* toolResult for a tool call only when no toolResult with that id stands
\* between the calling assistant message and the next assistant or user
\* message of the list it scans; it never adds one for a call that has a
\* result in that span, and it adds at most one per unanswered call.
\* Ids are read as the scan reads them, after the first pass.
IsSynthetic(msg) ==
    msg.role = "toolResult" /\ msg.text = NoResultText /\ msg.isError

Calling(messages, a) ==
    /\ messages[a].role = "assistant"
    /\ messages[a].stopReason \notin {"error", "aborted"}
    /\ TToolCalls(messages[a]) # <<>>

\* the first assistant or user message after position a, or one past the end
SpanEnd(messages, a) ==
    LET later == {q \in (a + 1)..Len(messages) :
                      messages[q].role \in {"assistant", "user"}}
    IN IF later = {} THEN Len(messages) + 1
       ELSE CHOOSE q \in later : \A r \in later : q <= r

AnsweredInSpan(messages, a, id) ==
    \E q \in (a + 1)..(SpanEnd(messages, a) - 1) :
        messages[q].role = "toolResult" /\ messages[q].toolCallId = id

\* the calls of the scanned list that have no result in their span
UnansweredCalls(messages, id) ==
    {ak \in (1..Len(messages)) \X (1..MaxBlocks) :
        /\ Calling(messages, ak[1])
        /\ ak[2] <= Len(TToolCalls(messages[ak[1]]))
        /\ TToolCalls(messages[ak[1]])[ak[2]].id = id
        /\ ~AnsweredInSpan(messages, ak[1], id)}

SyntheticFor(messages, id) ==
    {p \in 1..Len(messages) :
        IsSynthetic(messages[p]) /\ messages[p].toolCallId = id}

\* the assistant message of the output a synthetic result at p belongs to
CallerOf(messages, p) ==
    LET before == {a \in 1..(p - 1) : messages[a].role \in {"assistant", "user"}}
    IN IF before = {} THEN 0
       ELSE CHOOSE a \in before : \A r \in before : r <= a

SyntheticIds(messages) ==
    {messages[p].toolCallId : p \in {q \in 1..Len(messages) : IsSynthetic(messages[q])}}

C39_SyntheticOnlyWhenUnanswered ==
    Transformed =>
        LET scanned == FirstPassOf(tIn) IN
        /\ \A id \in SyntheticIds(tOut) :
               Cardinality(SyntheticFor(tOut, id))
                   <= Cardinality(UnansweredCalls(scanned, id))
        /\ \A p \in 1..Len(tOut) :
               IsSynthetic(tOut[p]) =>
                   LET a == CallerOf(tOut, p) IN
                   /\ a > 0
                   /\ tOut[a].role = "assistant"
                   /\ \E k \in 1..Len(TToolCalls(tOut[a])) :
                          TToolCalls(tOut[a])[k].id = tOut[p].toolCallId
                   /\ \A q \in (a + 1)..(p - 1) :
                          tOut[q].role = "toolResult"
                              => \/ IsSynthetic(tOut[q])
                                 \/ tOut[q].toolCallId # tOut[p].toolCallId

\* one assistant message with an answered and an unanswered call, followed by
\* a user message: only the unanswered call gets a synthetic result
C39_Witness ==
    /\ Transformed
    /\ \E a \in 1..Len(tIn) :
           /\ Calling(FirstPassOf(tIn), a)
           /\ Len(TToolCalls(tIn[a])) = 2
           /\ SpanEnd(tIn, a) <= Len(tIn)
           /\ \E k \in 1..2 :
                  AnsweredInSpan(FirstPassOf(tIn), a, TToolCalls(FirstPassOf(tIn)[a])[k].id)
    /\ Cardinality({p \in 1..Len(tOut) : IsSynthetic(tOut[p])}) = 1

\* ---------------------------------------------------------------------------
\* C40: prepareCompaction yields no preparation when the last entry of the path
\* is itself a compaction entry: nothing was added since the last compaction,
\* so nothing is prepared and no compaction follows.
PreparationAsked == preparation.state # "none"

C40_NothingAfterCompaction ==
    (PreparationAsked /\ EndsInCompaction(pathEntries))
        => /\ preparation.state = "undefined"
           /\ boundaryStart = 0
           /\ boundaryEnd = 0

\* a path of several entries that ends in a compaction entry, prepared
C40_Witness ==
    /\ PreparationAsked
    /\ Len(pathEntries) >= 2
    /\ EndsInCompaction(pathEntries)
    /\ preparation.state = "undefined"

====
